---- MODULE Spec2Model ----
(***************************************************************************)
(* A model of kairos: the TimeType expression evaluator (timetype.rs),     *)
(* the carry adjusters (util.rs), the matchers (matcher.rs) and the        *)
(* recurrence iterator pipeline (iter.rs, parser/iterator.rs).             *)
(*                                                                         *)
(* A TimeType value is a tuple whose first element is the variant name:    *)
(*   <<"Seconds", n>> ... <<"Years", n>>, <<"Moment", <<y,mo,d,h,mi,s>>>>,  *)
(*   <<"Addition", a, b>>, <<"Subtraction", a, b>>, <<"EndOfYear", e>> ... *)
(* A Result is <<"Ok", v>> or <<"Err", e>>; an Option<Result> that is None *)
(* is <<"None">>.                                                          *)
(***************************************************************************)
EXTENDS Integers, Sequences, FiniteSets, TLC

\* ------------------------------------------------------------------------
\* Bounds of the model
\* ------------------------------------------------------------------------
MaxPulls == 5

MaxCount == 2

MaxLen == 3

MaxTimes == 2

\* the largest count of the amounts added to and subtracted from a moment
MaxAmount == 80

\* ------------------------------------------------------------------------
\* TimeType (timetype.rs)
\* ------------------------------------------------------------------------
Seconds(i) == <<"Seconds", i>>

Minutes(i) == <<"Minutes", i>>

Hours(i) == <<"Hours", i>>

Days(i) == <<"Days", i>>

Weeks(i) == <<"Days", i * 7>>

Months(i) == <<"Months", i>>

Years(i) == <<"Years", i>>

Moment(ndt) == <<"Moment", ndt>>

Addition(a, b) == <<"Addition", a, b>>

Subtraction(a, b) == <<"Subtraction", a, b>>

EndOfYear(e) == <<"EndOfYear", e>>

EndOfMonth(e) == <<"EndOfMonth", e>>

EndOfDay(e) == <<"EndOfDay", e>>

EndOfHour(e) == <<"EndOfHour", e>>

EndOfMinute(e) == <<"EndOfMinute", e>>

Ok(v) == <<"Ok", v>>

Err(e) == <<"Err", e>>

None == <<"None">>

IsOk(r) == r[1] = "Ok"

IsErr(r) == r[1] = "Err"

name(tt) == tt[1]

AmountNames == {"Seconds", "Minutes", "Hours", "Days", "Months", "Years"}

EndOfNames == {"EndOfYear", "EndOfMonth", "EndOfDay", "EndOfHour", "EndOfMinute"}

is_a_amount(tt) == name(tt) \in AmountNames

is_moment(tt) == name(tt) = "Moment"

get_moment(tt) == IF name(tt) = "Moment" THEN <<"Some", tt[2]>> ELSE None

\* ------------------------------------------------------------------------
\* Integer casts and Rust arithmetic
\* ------------------------------------------------------------------------
\* Every integer the model computes with lies within the i32 range, so
\* `as i32` keeps the value.  An i64 count beyond 32 bits, k * 2^32 + r, is
\* written as an amount with a third component, <<unit, r, k>>: the model
\* computes with the low word r, which is what `(field + count) as i32`
\* leaves of the sum, the multiple of 2^32 being dropped by the cast.
\* A u32 is held in two's complement: `as u32` of a negative i64 is the
\* wrapped value 2^32 + x, written here as the negative number x it wraps
\* from, and u32 values are compared unsigned (ULe, ULt).
AsI32(x) == x

AsU32(x) == x

ULe(a, b) == IF (a >= 0) = (b >= 0) THEN a <= b ELSE a >= 0

ULt(a, b) == IF (a >= 0) = (b >= 0) THEN a < b ELSE a >= 0

Abs(x) == IF x < 0 THEN 0 - x ELSE x

\* Rust's % truncates towards zero: the remainder has the sign of the dividend
Rem(a, b) == IF a >= 0 THEN a % b ELSE 0 - ((0 - a) % b)

\* ------------------------------------------------------------------------
\* util.rs
\* ------------------------------------------------------------------------
is_leap_year(y) == (Rem(y, 4) = 0) /\ (Rem(y, 100) # 0 \/ Rem(y, 400) = 0)

get_num_of_days_in_month(y, m) ==
    IF m \in {1, 3, 5, 7, 8, 10, 12} THEN 31
    ELSE IF m = 2 THEN (IF is_leap_year(AsI32(y)) THEN 29 ELSE 28)
    ELSE 30

\* the fix! macro: returns <<base, next>>
fix(base, border, next) ==
    <<Rem(base, border), next + ((base - Rem(base, border)) \div border)>>

RECURSIVE adjust_days(_, _, _)
adjust_days(y, mo, d) ==
    IF d > get_num_of_days_in_month(y, mo)
    THEN adjust_days(y, mo + 1, d - get_num_of_days_in_month(y, mo))
    ELSE <<mo, d>>

RECURSIVE adjust_months(_, _)
adjust_months(y, mo) ==
    IF mo > 12 THEN adjust_months(y + 1, mo - 12) ELSE <<y, mo>>

adjust_times_add(y, mo, d, h, mi, s) ==
    LET f1 == fix(s, 60, mi)
        s1 == f1[1]
        f2 == fix(f1[2], 60, h)
        mi1 == f2[1]
        f3 == fix(f2[2], 24, d)
        h1 == f3[1]
        md == adjust_days(y, mo, f3[2])
        ym == adjust_months(y, md[1])
    IN  <<ym[1], ym[2], md[2], h1, mi1, s1>>

adjust_times_sub(y, mo, d, h, mi, s) ==
    LET mi1 == IF s < 0 THEN mi - ((Abs(s) \div 60) + 1) ELSE mi
        s1  == IF s < 0 THEN 60 - Abs(0 - s) ELSE s
        h1  == IF mi1 < 0 THEN h - ((Abs(mi1) \div 60) + 1) ELSE h
        mi2 == IF mi1 < 0 THEN 60 - Abs(0 - mi1) ELSE mi1
        d1  == IF h1 < 0 THEN d - ((Abs(h1) \div 24) + 1) ELSE d
        h2  == IF h1 < 0 THEN 24 - Abs(0 - h1) ELSE h1
        mo1 == IF d1 < 1 THEN mo - ((Abs(d1) \div 32) + 1) ELSE mo
        d2  == IF d1 < 1 THEN 31 - Abs(0 - d1) ELSE d1
        y1  == IF mo1 < 1 THEN y - ((Abs(mo1) \div 13) + 1) ELSE y
        mo2 == IF mo1 < 1 THEN 12 - Abs(0 - mo1) ELSE mo1
    IN  <<y1, mo2, d2, h2, mi2, s1>>

\* ------------------------------------------------------------------------
\* chrono: NaiveDate::from_ymd_opt(..).and_then(and_hms_opt(..))
\* ------------------------------------------------------------------------
MIN_YEAR == -262144

MAX_YEAR == 262143

from_ymd_opt(y, mo, d) ==
    /\ y >= MIN_YEAR /\ y <= MAX_YEAR
    /\ ULe(1, mo) /\ ULe(mo, 12)
    /\ ULe(1, d) /\ ULe(d, get_num_of_days_in_month(y, mo))

and_hms_opt(h, mi, s) == ULt(h, 24) /\ ULt(mi, 60) /\ ULt(s, 60)

\* the tail shared by every amount arm of add_to_moment / sub_from_moment:
\* the casts, the construction of the NaiveDateTime and the OutOfBounds error
make_moment(t) ==
    LET y  == AsI32(t[1])
        mo == AsU32(t[2])
        d  == AsU32(t[3])
        h  == AsU32(t[4])
        mi == AsU32(t[5])
        s  == AsU32(t[6])
    IN  IF from_ymd_opt(y, mo, d) /\ and_hms_opt(h, mi, s)
        THEN Ok(Moment(<<y, mo, d, h, mi, s>>))
        ELSE Err(<<"OutOfBounds", y, mo, h, h, mi, s>>)

\* ------------------------------------------------------------------------
\* The evaluator (timetype.rs): do_calculate, add, sub and their helpers
\* ------------------------------------------------------------------------
\* A call add(b, c) or sub(b, c) made from a helper on the operands of a
\* composite is written do_calculate(Addition(b, c)) resp.
\* do_calculate(Subtraction(b, c)): do_calculate's first two arms are exactly
\* those calls, and the evaluation then has one entry point.
RECURSIVE do_calculate(_)
RECURSIVE add(_, _)
RECURSIVE sub(_, _)
RECURSIVE add_to_seconds(_, _)
RECURSIVE add_to_minutes(_, _)
RECURSIVE add_to_hours(_, _)
RECURSIVE add_to_days(_, _)
RECURSIVE add_to_months(_, _)
RECURSIVE add_to_years(_, _)
RECURSIVE add_to_moment(_, _)
RECURSIVE sub_from_seconds(_, _)
RECURSIVE sub_from_minutes(_, _)
RECURSIVE sub_from_hours(_, _)
RECURSIVE sub_from_days(_, _)
RECURSIVE sub_from_months(_, _)
RECURSIVE sub_from_years(_, _)
RECURSIVE sub_from_moment(_, _)
RECURSIVE end_of_year(_)
RECURSIVE end_of_month(_)
RECURSIVE end_of_day(_)
RECURSIVE end_of_hour(_)
RECURSIVE end_of_minute(_)

add_to_seconds(amount, tt) ==
    CASE name(tt) = "Seconds" -> Ok(Seconds(tt[2] + amount))
      [] name(tt) = "Minutes" -> Ok(Seconds(tt[2] * 60 + amount))
      [] name(tt) = "Hours" -> Ok(Seconds(tt[2] * 60 * 60 + amount))
      [] name(tt) = "Days" -> Ok(Seconds(tt[2] * 60 * 60 * 24 + amount))
      [] name(tt) = "Months" -> Ok(Seconds(tt[2] * 60 * 60 * 24 * 30 + amount))
      [] name(tt) = "Years" -> Ok(Seconds(tt[2] * 60 * 60 * 24 * 30 * 12 + amount))
      [] name(tt) = "Moment" \/ name(tt) \in EndOfNames ->
            Err(<<"CannotAdd", Seconds(amount), tt>>)
      [] name(tt) = "Addition" ->
            LET r == do_calculate(tt) IN IF IsOk(r) THEN add_to_seconds(amount, r[2]) ELSE r
      [] name(tt) = "Subtraction" ->
            LET r == do_calculate(tt) IN IF IsOk(r) THEN add_to_seconds(amount, r[2]) ELSE r

sub_from_seconds(amount, tt) ==
    CASE name(tt) = "Seconds" -> Ok(Seconds(amount - tt[2]))
      [] name(tt) = "Minutes" -> Ok(Seconds(amount - tt[2] * 60))
      [] name(tt) = "Hours" -> Ok(Seconds(amount - tt[2] * 60 * 60))
      [] name(tt) = "Days" -> Ok(Seconds(amount - tt[2] * 60 * 60 * 24))
      [] name(tt) = "Months" -> Ok(Seconds(amount - tt[2] * 60 * 60 * 24 * 30))
      [] name(tt) = "Years" -> Ok(Seconds(amount - tt[2] * 60 * 60 * 24 * 30 * 12))
      [] name(tt) = "Moment" \/ name(tt) \in EndOfNames ->
            Err(<<"CannotSub", Seconds(amount), tt>>)
      [] name(tt) = "Addition" ->
            LET r == do_calculate(tt) IN IF IsOk(r) THEN sub_from_seconds(amount, r[2]) ELSE r
      [] name(tt) = "Subtraction" ->
            LET r == do_calculate(tt) IN IF IsOk(r) THEN sub_from_seconds(amount, r[2]) ELSE r

\* mutant of add_to_minutes: an hour counts 24 minutes
add_to_minutes_short_hour(amount, tt) ==
    CASE name(tt) = "Seconds" -> Ok(Seconds(tt[2] + amount * 60))
      [] name(tt) = "Minutes" -> Ok(Minutes(tt[2] + amount))
      [] name(tt) = "Hours" -> Ok(Minutes(tt[2] * 24 + amount))
      [] name(tt) = "Days" -> Ok(Minutes(tt[2] * 60 * 24 + amount))
      [] name(tt) = "Months" -> Ok(Minutes(tt[2] * 60 * 24 * 30 + amount))
      [] name(tt) = "Years" -> Ok(Minutes(tt[2] * 60 * 24 * 30 * 12 + amount))
      [] name(tt) = "Moment" \/ name(tt) \in EndOfNames ->
            Err(<<"CannotAdd", Minutes(amount), tt>>)
      [] name(tt) = "Addition" ->
            LET r == do_calculate(tt) IN IF IsOk(r) THEN add_to_minutes(amount, r[2]) ELSE r
      [] name(tt) = "Subtraction" ->
            LET r == do_calculate(tt) IN IF IsOk(r) THEN add_to_minutes(amount, r[2]) ELSE r

add_to_minutes(amount, tt) ==
    CASE name(tt) = "Seconds" -> Ok(Seconds(tt[2] + amount * 60))
      [] name(tt) = "Minutes" -> Ok(Minutes(tt[2] + amount))
      [] name(tt) = "Hours" -> Ok(Minutes(tt[2] * 60 + amount))
      [] name(tt) = "Days" -> Ok(Minutes(tt[2] * 60 * 24 + amount))
      [] name(tt) = "Months" -> Ok(Minutes(tt[2] * 60 * 24 * 30 + amount))
      [] name(tt) = "Years" -> Ok(Minutes(tt[2] * 60 * 24 * 30 * 12 + amount))
      [] name(tt) = "Moment" \/ name(tt) \in EndOfNames ->
            Err(<<"CannotAdd", Minutes(amount), tt>>)
      [] name(tt) = "Addition" ->
            LET r == do_calculate(tt) IN IF IsOk(r) THEN add_to_minutes(amount, r[2]) ELSE r
      [] name(tt) = "Subtraction" ->
            LET r == do_calculate(tt) IN IF IsOk(r) THEN add_to_minutes(amount, r[2]) ELSE r

sub_from_minutes(amount, tt) ==
    CASE name(tt) = "Seconds" -> Ok(Seconds(amount * 60 - tt[2]))
      [] name(tt) = "Minutes" -> Ok(Minutes(amount - tt[2]))
      [] name(tt) = "Hours" -> Ok(Minutes(amount - tt[2] * 60))
      [] name(tt) = "Days" -> Ok(Minutes(amount - tt[2] * 60 * 24))
      [] name(tt) = "Months" -> Ok(Minutes(amount - tt[2] * 60 * 24 * 30))
      [] name(tt) = "Years" -> Ok(Minutes(amount - tt[2] * 60 * 24 * 30 * 12))
      [] name(tt) = "Moment" \/ name(tt) \in EndOfNames ->
            Err(<<"CannotSub", Minutes(amount), tt>>)
      [] name(tt) = "Addition" ->
            LET r == do_calculate(tt) IN IF IsOk(r) THEN sub_from_minutes(amount, r[2]) ELSE r
      [] name(tt) = "Subtraction" ->
            LET r == do_calculate(tt) IN IF IsOk(r) THEN sub_from_minutes(amount, r[2]) ELSE r

add_to_hours(amount, tt) ==
    CASE name(tt) = "Seconds" -> Ok(Seconds(tt[2] + amount * 60 * 60))
      [] name(tt) = "Minutes" -> Ok(Minutes(tt[2] + amount * 60))
      [] name(tt) = "Hours" -> Ok(Hours(tt[2] + amount))
      [] name(tt) = "Days" -> Ok(Hours(tt[2] * 24 + amount))
      [] name(tt) = "Months" -> Ok(Hours(tt[2] * 24 * 30 + amount))
      [] name(tt) = "Years" -> Ok(Hours(tt[2] * 24 * 30 * 12 + amount))
      [] name(tt) = "Moment" \/ name(tt) \in EndOfNames ->
            Err(<<"CannotAdd", Hours(amount), tt>>)
      [] name(tt) = "Addition" ->
            LET r == do_calculate(tt) IN IF IsOk(r) THEN add_to_hours(amount, r[2]) ELSE r
      [] name(tt) = "Subtraction" ->
            LET r == do_calculate(tt) IN IF IsOk(r) THEN add_to_hours(amount, r[2]) ELSE r

sub_from_hours(amount, tt) ==
    CASE name(tt) = "Seconds" -> Ok(Seconds(amount * 60 * 60 - tt[2]))
      [] name(tt) = "Minutes" -> Ok(Minutes(amount * 60 - tt[2]))
      [] name(tt) = "Hours" -> Ok(Hours(amount - tt[2]))
      [] name(tt) = "Days" -> Ok(Hours(amount - tt[2] * 24))
      [] name(tt) = "Months" -> Ok(Hours(amount - tt[2] * 24 * 30))
      [] name(tt) = "Years" -> Ok(Hours(amount - tt[2] * 24 * 30 * 12))
      [] name(tt) = "Moment" \/ name(tt) \in EndOfNames ->
            Err(<<"CannotSub", Hours(amount), tt>>)
      [] name(tt) = "Addition" ->
            LET r == do_calculate(tt) IN IF IsOk(r) THEN sub_from_hours(amount, r[2]) ELSE r
      [] name(tt) = "Subtraction" ->
            LET r == do_calculate(tt) IN IF IsOk(r) THEN sub_from_hours(amount, r[2]) ELSE r

add_to_days(amount, tt) ==
    CASE name(tt) = "Seconds" -> Ok(Seconds(tt[2] + amount * 60 * 60 * 24))
      [] name(tt) = "Minutes" -> Ok(Minutes(tt[2] + amount * 60 * 24))
      [] name(tt) = "Hours" -> Ok(Hours(tt[2] + amount * 24))
      [] name(tt) = "Days" -> Ok(Days(tt[2] + amount))
      [] name(tt) = "Months" -> Ok(Days(tt[2] * 30 + amount))
      [] name(tt) = "Years" -> Ok(Days(tt[2] * 30 * 12 + amount))
      [] name(tt) = "Moment" \/ name(tt) \in EndOfNames ->
            Err(<<"CannotAdd", Days(amount), tt>>)
      [] name(tt) = "Addition" ->
            LET r == do_calculate(tt) IN IF IsOk(r) THEN add_to_days(amount, r[2]) ELSE r
      [] name(tt) = "Subtraction" ->
            LET r == do_calculate(tt) IN IF IsOk(r) THEN add_to_days(amount, r[2]) ELSE r

sub_from_days(amount, tt) ==
    CASE name(tt) = "Seconds" -> Ok(Seconds(amount * 60 * 60 * 24 - tt[2]))
      [] name(tt) = "Minutes" -> Ok(Minutes(amount * 60 * 24 - tt[2]))
      [] name(tt) = "Hours" -> Ok(Hours(amount * 24 - tt[2]))
      [] name(tt) = "Days" -> Ok(Days(amount - tt[2]))
      [] name(tt) = "Months" -> Ok(Days(amount - tt[2] * 30))
      [] name(tt) = "Years" -> Ok(Days(amount - tt[2] * 30 * 12))
      [] name(tt) = "Moment" \/ name(tt) \in EndOfNames ->
            Err(<<"CannotSub", Days(amount), tt>>)
      [] name(tt) = "Addition" ->
            LET r == do_calculate(tt) IN IF IsOk(r) THEN sub_from_days(amount, r[2]) ELSE r
      [] name(tt) = "Subtraction" ->
            LET r == do_calculate(tt) IN IF IsOk(r) THEN sub_from_days(amount, r[2]) ELSE r

add_to_months(amount, tt) ==
    CASE name(tt) = "Seconds" -> Ok(Seconds(tt[2] + amount * 60 * 60 * 24 * 30))
      [] name(tt) = "Minutes" -> Ok(Minutes(tt[2] + amount * 60 * 24 * 30))
      [] name(tt) = "Hours" -> Ok(Hours(tt[2] + amount * 24 * 30))
      [] name(tt) = "Days" -> Ok(Days(tt[2] + amount * 30))
      [] name(tt) = "Months" -> Ok(Months(tt[2] + amount))
      [] name(tt) = "Years" -> Ok(Months(tt[2] * 12 + amount))
      [] name(tt) = "Moment" \/ name(tt) \in EndOfNames ->
            Err(<<"CannotAdd", Months(amount), tt>>)
      [] name(tt) = "Addition" ->
            LET r == do_calculate(tt) IN IF IsOk(r) THEN add_to_months(amount, r[2]) ELSE r
      [] name(tt) = "Subtraction" ->
            LET r == do_calculate(tt) IN IF IsOk(r) THEN add_to_months(amount, r[2]) ELSE r

sub_from_months(amount, tt) ==
    CASE name(tt) = "Seconds" -> Ok(Seconds(amount * 60 * 60 * 24 * 30 - tt[2]))
      [] name(tt) = "Minutes" -> Ok(Minutes(amount * 60 * 24 * 30 - tt[2]))
      [] name(tt) = "Hours" -> Ok(Hours(amount * 24 * 30 - tt[2]))
      [] name(tt) = "Days" -> Ok(Days(amount * 30 - tt[2]))
      [] name(tt) = "Months" -> Ok(Months(amount - tt[2]))
      [] name(tt) = "Years" -> Ok(Months(amount - tt[2] * 12))
      [] name(tt) = "Moment" \/ name(tt) \in EndOfNames ->
            Err(<<"CannotSub", Months(amount), tt>>)
      [] name(tt) = "Addition" ->
            LET r == do_calculate(tt) IN IF IsOk(r) THEN sub_from_months(amount, r[2]) ELSE r
      [] name(tt) = "Subtraction" ->
            LET r == do_calculate(tt) IN IF IsOk(r) THEN sub_from_months(amount, r[2]) ELSE r

add_to_years(amount, tt) ==
    CASE name(tt) = "Seconds" -> Ok(Seconds(tt[2] + amount * 60 * 60 * 24 * 30 * 12))
      [] name(tt) = "Minutes" -> Ok(Minutes(tt[2] + amount * 60 * 24 * 30 * 12))
      [] name(tt) = "Hours" -> Ok(Hours(tt[2] + amount * 24 * 30 * 12))
      [] name(tt) = "Days" -> Ok(Days(tt[2] + amount * 30 * 12))
      [] name(tt) = "Months" -> Ok(Months(tt[2] + amount * 12))
      [] name(tt) = "Years" -> Ok(Years(tt[2] + amount))
      [] name(tt) = "Moment" \/ name(tt) \in EndOfNames ->
            Err(<<"CannotAdd", Years(amount), tt>>)
      [] name(tt) = "Addition" ->
            LET r == do_calculate(tt) IN IF IsOk(r) THEN add_to_years(amount, r[2]) ELSE r
      [] name(tt) = "Subtraction" ->
            LET r == do_calculate(tt) IN IF IsOk(r) THEN add_to_years(amount, r[2]) ELSE r

sub_from_years(amount, tt) ==
    CASE name(tt) = "Seconds" -> Ok(Seconds(amount * 60 * 60 * 24 * 30 * 12 - tt[2]))
      [] name(tt) = "Minutes" -> Ok(Minutes(amount * 60 * 24 * 30 * 12 - tt[2]))
      [] name(tt) = "Hours" -> Ok(Hours(amount * 24 * 30 * 12 - tt[2]))
      [] name(tt) = "Days" -> Ok(Days(amount * 30 * 12 - tt[2]))
      [] name(tt) = "Months" -> Ok(Months(amount * 12 - tt[2]))
      [] name(tt) = "Years" -> Ok(Years(amount - tt[2]))
      [] name(tt) = "Moment" \/ name(tt) \in EndOfNames ->
            Err(<<"CannotSub", Years(amount), tt>>)
      [] name(tt) = "Addition" ->
            LET r == do_calculate(tt) IN IF IsOk(r) THEN sub_from_years(amount, r[2]) ELSE r
      [] name(tt) = "Subtraction" ->
            LET r == do_calculate(tt) IN IF IsOk(r) THEN sub_from_years(amount, r[2]) ELSE r

\* the six fields of a NaiveDateTime as i64: <<y, mo, d, h, mi, s>>
fields(mom) == <<mom[1], mom[2], mom[3], mom[4], mom[5], mom[6]>>

\* the index of the field an amount is added to or subtracted from
field_of(tt) ==
    CASE name(tt) = "Years" -> 1
      [] name(tt) = "Months" -> 2
      [] name(tt) = "Days" -> 3
      [] name(tt) = "Hours" -> 4
      [] name(tt) = "Minutes" -> 5
      [] name(tt) = "Seconds" -> 6

add_to_moment(mom, tt) ==
    CASE is_a_amount(tt) ->
            LET t == [fields(mom) EXCEPT ![field_of(tt)] = @ + tt[2]]
            IN  make_moment(adjust_times_add(t[1], t[2], t[3], t[4], t[5], t[6]))
      [] name(tt) = "Moment" \/ name(tt) \in EndOfNames ->
            Err(<<"CannotAdd", Moment(mom), tt>>)
      [] name(tt) = "Addition" ->
            LET r == do_calculate(tt) IN IF IsOk(r) THEN add_to_moment(mom, r[2]) ELSE r
      [] name(tt) = "Subtraction" ->
            LET r == do_calculate(tt) IN IF IsOk(r) THEN add_to_moment(mom, r[2]) ELSE r

sub_from_moment(mom, tt) ==
    CASE is_a_amount(tt) ->
            LET t == [fields(mom) EXCEPT ![field_of(tt)] = @ - tt[2]]
            IN  make_moment(adjust_times_sub(t[1], t[2], t[3], t[4], t[5], t[6]))
      [] name(tt) = "Moment" \/ name(tt) \in EndOfNames ->
            Err(<<"CannotSub", Moment(mom), tt>>)
      [] name(tt) = "Addition" ->
            LET r == do_calculate(tt) IN IF IsOk(r) THEN sub_from_moment(mom, r[2]) ELSE r
      [] name(tt) = "Subtraction" ->
            LET r == do_calculate(tt) IN IF IsOk(r) THEN sub_from_moment(mom, r[2]) ELSE r

\* the last arms of add and sub: an EndOf* operand, matched in the order
\* EndOfYear left, EndOfYear right, EndOfMonth left, ... ; the error carries
\* the other operand first
RECURSIVE end_of_operand(_, _, _, _)
end_of_operand(kind, a, b, names) ==
    IF name(a) = Head(names) THEN Err(<<kind, b, a>>)
    ELSE IF name(b) = Head(names) THEN Err(<<kind, a, b>>)
    ELSE end_of_operand(kind, a, b, Tail(names))

EndOfOrder == <<"EndOfYear", "EndOfMonth", "EndOfDay", "EndOfHour", "EndOfMinute">>

\* add, were it to commute the operands when the moment is on the right
add_commuting(a, b) ==
    CASE name(a) = "Moment" -> add_to_moment(a[2], b)
      [] name(a) # "Moment" /\ name(b) = "Moment" -> add_to_moment(b[2], a)
      [] name(b) # "Moment" /\ name(a) = "Seconds" -> add_to_seconds(a[2], b)
      [] name(b) # "Moment" /\ name(a) = "Minutes" -> add_to_minutes(a[2], b)
      [] name(b) # "Moment" /\ name(a) = "Hours" -> add_to_hours(a[2], b)
      [] name(b) # "Moment" /\ name(a) = "Days" -> add_to_days(a[2], b)
      [] name(b) # "Moment" /\ name(a) = "Months" -> add_to_months(a[2], b)
      [] name(b) # "Moment" /\ name(a) = "Years" -> add_to_years(a[2], b)
      [] name(b) # "Moment" /\ name(a) = "Addition" ->
            LET bx == add(a[2], a[3]) IN IF IsOk(bx) THEN add(bx[2], b) ELSE bx
      [] name(b) = "Addition" /\ name(a) \in EndOfNames \cup {"Subtraction"} ->
            LET bx == add(b[2], b[3]) IN IF IsOk(bx) THEN add(a, bx[2]) ELSE bx
      [] name(b) \notin {"Moment", "Addition"} /\ name(a) = "Subtraction" ->
            LET bx == do_calculate(a) IN IF IsOk(bx) THEN add(b, bx[2]) ELSE bx
      [] name(b) = "Subtraction" /\ name(a) \in EndOfNames ->
            LET bx == do_calculate(b[2])
                rx == IF IsOk(bx) THEN add(a, bx[2]) ELSE bx
            IN  IF IsOk(rx) THEN do_calculate(Subtraction(rx[2], b[3])) ELSE rx
      [] name(a) \in EndOfNames /\ name(b) \in AmountNames \cup EndOfNames ->
            end_of_operand("CannotAdd", a, b, EndOfOrder)

add(a, b) ==
    CASE name(a) = "Moment" -> add_to_moment(a[2], b)
      [] name(a) # "Moment" /\ name(b) = "Moment" -> Err(<<"CannotAdd", a, b>>)
      [] name(b) # "Moment" /\ name(a) = "Seconds" -> add_to_seconds(a[2], b)
      [] name(b) # "Moment" /\ name(a) = "Minutes" -> add_to_minutes(a[2], b)
      [] name(b) # "Moment" /\ name(a) = "Hours" -> add_to_hours(a[2], b)
      [] name(b) # "Moment" /\ name(a) = "Days" -> add_to_days(a[2], b)
      [] name(b) # "Moment" /\ name(a) = "Months" -> add_to_months(a[2], b)
      [] name(b) # "Moment" /\ name(a) = "Years" -> add_to_years(a[2], b)
      [] name(b) # "Moment" /\ name(a) = "Addition" ->
            LET bx == add(a[2], a[3]) IN IF IsOk(bx) THEN add(bx[2], b) ELSE bx
      [] name(b) = "Addition" /\ name(a) \in EndOfNames \cup {"Subtraction"} ->
            LET bx == add(b[2], b[3]) IN IF IsOk(bx) THEN add(a, bx[2]) ELSE bx
      [] name(b) \notin {"Moment", "Addition"} /\ name(a) = "Subtraction" ->
            LET bx == do_calculate(a) IN IF IsOk(bx) THEN add(b, bx[2]) ELSE bx
      [] name(b) = "Subtraction" /\ name(a) \in EndOfNames ->
            LET bx == do_calculate(b[2])
                rx == IF IsOk(bx) THEN add(a, bx[2]) ELSE bx
            IN  IF IsOk(rx) THEN do_calculate(Subtraction(rx[2], b[3])) ELSE rx
      [] name(a) \in EndOfNames /\ name(b) \in AmountNames \cup EndOfNames ->
            end_of_operand("CannotAdd", a, b, EndOfOrder)

sub(a, b) ==
    CASE name(a) = "Moment" -> sub_from_moment(a[2], b)
      [] name(a) = "Seconds" -> sub_from_seconds(a[2], b)
      [] name(a) = "Minutes" -> sub_from_minutes(a[2], b)
      [] name(a) = "Hours" -> sub_from_hours(a[2], b)
      [] name(a) = "Days" -> sub_from_days(a[2], b)
      [] name(a) = "Months" -> sub_from_months(a[2], b)
      [] name(a) = "Years" -> sub_from_years(a[2], b)
      [] name(a) = "Subtraction" ->
            LET bx == sub(a[2], a[3]) IN IF IsOk(bx) THEN sub(bx[2], b) ELSE bx
      [] name(b) = "Subtraction" /\ name(a) \in EndOfNames \cup {"Addition"} ->
            LET bx == sub(b[2], b[3]) IN IF IsOk(bx) THEN sub(a, bx[2]) ELSE bx
      [] name(b) # "Subtraction" /\ name(a) = "Addition" ->
            LET bx == do_calculate(a) IN IF IsOk(bx) THEN sub(bx[2], b) ELSE bx
      [] name(b) = "Addition" /\ name(a) \in EndOfNames ->
            LET bx == do_calculate(b[2])
                rx == IF IsOk(bx) THEN sub(a, bx[2]) ELSE bx
            IN  IF IsOk(rx) THEN do_calculate(Addition(rx[2], b[3])) ELSE rx
      [] name(a) \in EndOfNames /\ name(b) \in AmountNames \cup EndOfNames \cup {"Moment"} ->
            end_of_operand("CannotSub", a, b, EndOfOrder)

\* NaiveDate::from_ymd_opt(y, mo, d) followed by and_hms(_opt)(h, mi, s), as the
\* Moment arm of end_of_year .. end_of_minute builds it
snap(t) ==
    IF from_ymd_opt(t[1], t[2], t[3]) /\ and_hms_opt(t[4], t[5], t[6])
    THEN Ok(Moment(t))
    ELSE Err(<<"OutOfBounds", AsI32(t[1]), t[2], t[3], t[4], t[5], t[6]>>)

\* end_of_year, were nested end-of operators to collapse to the innermost
end_of_year_collapsing(tt) ==
    LET r == do_calculate(tt)
    IN  IF IsErr(r) THEN r
        ELSE CASE name(r[2]) \in AmountNames \cup {"Addition", "Subtraction"} ->
                    Err(<<"CannotCalculateEndOfYearOn", r[2]>>)
               [] name(r[2]) = "Moment" /\ name(tt) \in EndOfNames -> r
               [] name(r[2]) = "Moment" /\ name(tt) \notin EndOfNames ->
                    LET m == fields(r[2][2]) IN snap(<<m[1], 12, 31, 0, 0, 0>>)
               [] name(r[2]) \in EndOfNames -> do_calculate(r[2][2])

end_of_year(tt) ==
    LET r == do_calculate(tt)
    IN  IF IsErr(r) THEN r
        ELSE CASE name(r[2]) \in AmountNames \cup {"Addition", "Subtraction"} ->
                    Err(<<"CannotCalculateEndOfYearOn", r[2]>>)
               [] name(r[2]) = "Moment" ->
                    LET m == fields(r[2][2]) IN snap(<<m[1], 12, 31, 0, 0, 0>>)
               [] name(r[2]) \in EndOfNames -> do_calculate(r[2][2])

\* end_of_month, were it to take February for 28 days in every year
end_of_month_without_leap(tt) ==
    LET r == do_calculate(tt)
    IN  IF IsErr(r) THEN r
        ELSE CASE name(r[2]) \in AmountNames \cup {"Addition", "Subtraction"} ->
                    Err(<<"CannotCalculateEndOfMonthOn", r[2]>>)
               [] name(r[2]) = "Moment" ->
                    LET m == fields(r[2][2])
                    IN  snap(<<m[1], m[2], AsU32(get_num_of_days_in_month(1999, m[2])), 0, 0, 0>>)
               [] name(r[2]) \in EndOfNames -> do_calculate(r[2][2])

end_of_month(tt) ==
    LET r == do_calculate(tt)
    IN  IF IsErr(r) THEN r
        ELSE CASE name(r[2]) \in AmountNames \cup {"Addition", "Subtraction"} ->
                    Err(<<"CannotCalculateEndOfMonthOn", r[2]>>)
               [] name(r[2]) = "Moment" ->
                    LET m == fields(r[2][2]) IN snap(<<m[1], m[2], AsU32(get_num_of_days_in_month(m[1], m[2])), 0, 0, 0>>)
               [] name(r[2]) \in EndOfNames -> do_calculate(r[2][2])

end_of_day(tt) ==
    LET r == do_calculate(tt)
    IN  IF IsErr(r) THEN r
        ELSE CASE name(r[2]) \in AmountNames \cup {"Addition", "Subtraction"} ->
                    Err(<<"CannotCalculateEndOfMonthOn", r[2]>>)
               [] name(r[2]) = "Moment" ->
                    LET m == fields(r[2][2]) IN snap(<<m[1], m[2], m[3], 23, 59, 59>>)
               [] name(r[2]) \in EndOfNames -> do_calculate(r[2][2])

end_of_hour(tt) ==
    LET r == do_calculate(tt)
    IN  IF IsErr(r) THEN r
        ELSE CASE name(r[2]) \in AmountNames \cup {"Addition", "Subtraction"} ->
                    Err(<<"CannotCalculateEndOfMonthOn", r[2]>>)
               [] name(r[2]) = "Moment" ->
                    LET m == fields(r[2][2]) IN snap(<<m[1], m[2], m[3], m[4], 59, 59>>)
               [] name(r[2]) \in EndOfNames -> do_calculate(r[2][2])

end_of_minute(tt) ==
    LET r == do_calculate(tt)
    IN  IF IsErr(r) THEN r
        ELSE CASE name(r[2]) \in AmountNames \cup {"Addition", "Subtraction"} ->
                    Err(<<"CannotCalculateEndOfMonthOn", r[2]>>)
               [] name(r[2]) = "Moment" ->
                    LET m == fields(r[2][2]) IN snap(<<m[1], m[2], m[3], m[4], m[5], 59>>)
               [] name(r[2]) \in EndOfNames -> do_calculate(r[2][2])

\* do_calculate, were it to bring a plain amount of minutes to seconds
do_calculate_to_seconds(tt) ==
    CASE name(tt) = "Addition" -> add(tt[2], tt[3])
      [] name(tt) = "Subtraction" -> sub(tt[2], tt[3])
      [] name(tt) = "EndOfYear" -> end_of_year(tt[2])
      [] name(tt) = "EndOfMonth" -> end_of_month(tt[2])
      [] name(tt) = "EndOfDay" -> end_of_day(tt[2])
      [] name(tt) = "EndOfHour" -> end_of_hour(tt[2])
      [] name(tt) = "EndOfMinute" -> end_of_minute(tt[2])
      [] name(tt) = "Minutes" -> Ok(Seconds(tt[2] * 60))
      [] OTHER -> Ok(tt)

do_calculate(tt) ==
    CASE name(tt) = "Addition" -> add(tt[2], tt[3])
      [] name(tt) = "Subtraction" -> sub(tt[2], tt[3])
      [] name(tt) = "EndOfYear" -> end_of_year(tt[2])
      [] name(tt) = "EndOfMonth" -> end_of_month(tt[2])
      [] name(tt) = "EndOfDay" -> end_of_day(tt[2])
      [] name(tt) = "EndOfHour" -> end_of_hour(tt[2])
      [] name(tt) = "EndOfMinute" -> end_of_minute(tt[2])
      [] OTHER -> Ok(tt)

calculate(tt) == do_calculate(tt)

\* ------------------------------------------------------------------------
\* matcher.rs, indicator.rs
\* ------------------------------------------------------------------------
\* chrono's NaiveDateTime ordering (derived Ord): date, then time of day
lt(m1, m2) ==
    \E i \in 1..6 : m1[i] < m2[i] /\ \A j \in 1..(i - 1) : m1[j] = m2[j]

\* chrono's Datelike::weekday of a valid date
weekday(mom) ==
    LET t  == <<0, 3, 2, 5, 0, 3, 5, 1, 4, 6, 2, 4>>
        y  == IF mom[2] < 3 THEN mom[1] - 1 ELSE mom[1]
        wd == (y + (y \div 4) - (y \div 100) + (y \div 400) + t[mom[2]] + mom[3]) % 7
    IN  <<"Sun", "Mon", "Tue", "Wed", "Thu", "Fri", "Sat">>[wd + 1]

\* impl Into<chrono::Weekday> for Day
Day_into(day) ==
    CASE day = "Monday" -> "Mon"
      [] day = "Tuesday" -> "Tue"
      [] day = "Wednesday" -> "Wed"
      [] day = "Thursday" -> "Thu"
      [] day = "Friday" -> "Fri"
      [] day = "Saturday" -> "Sat"
      [] day = "Sunday" -> "Sun"

\* impl Into<u32> for Month
Month_into(month) ==
    CASE month = "January" -> 1
      [] month = "February" -> 2
      [] month = "March" -> 3
      [] month = "April" -> 4
      [] month = "May" -> 5
      [] month = "June" -> 6
      [] month = "July" -> 7
      [] month = "August" -> 8
      [] month = "September" -> 9
      [] month = "October" -> 10
      [] month = "November" -> 11
      [] month = "December" -> 12

\* mutant of matches: a non-moment counts as not matching
matches_default_false(matcher, tt) ==
    LET mom == get_moment(tt)
    IN  IF mom = None THEN Ok(FALSE)
        ELSE IF matcher[1] = "Day" THEN Ok(Day_into(matcher[2]) = weekday(mom[2]))
        ELSE Ok(Month_into(matcher[2]) = mom[2][2])

\* Matcher::matches for Day (<<"Day", d>>) and Month (<<"Month", m>>)
matches(matcher, tt) ==
    LET mom == get_moment(tt)
    IN  IF mom = None THEN Err(<<"ArgumentErrorNotAMoment", name(tt)>>)
        ELSE IF matcher[1] = "Day" THEN Ok(Day_into(matcher[2]) = weekday(mom[2]))
        ELSE Ok(Month_into(matcher[2]) = mom[2][2])

\* ------------------------------------------------------------------------
\* iter.rs: Iter
\* ------------------------------------------------------------------------
\* Iter::build: Ok carries the fields <<base, increment>> of the new Iter
Iter_build(ndt, inc) ==
    IF ~is_a_amount(inc)
    THEN Err(<<"ArgumentErrorNotAnAmount", inc>>)
    ELSE Ok(<<Moment(ndt), inc>>)

add_assign(self, rhs) == Addition(self, rhs)

sub_assign(self, rhs) == Subtraction(self, rhs)

\* the closure of Iter::recalculate: an Ok result is stored as the base
store(b, res) == IF IsOk(res) THEN <<res[2], Ok(<<>>)>> ELSE <<b, res>>

\* Iter::recalculate on a base b: <<the base afterwards, the Result<()>>>
recalculate(b) == store(b, calculate(b))

skip(b, inc) == recalculate(add_assign(b, inc))

rollback(b, inc) == recalculate(sub_assign(b, inc))

\* the closure of Iter::next: an Ok(()) of skip becomes Ok(base.clone())
yield_base(k) == <<k[1], IF IsOk(k[2]) THEN Ok(k[1]) ELSE k[2]>>

\* mutant of Iter_next: the base is yielded before the step, not after it
Iter_next_yields_old_base(b, inc) == <<skip(b, inc)[1], Ok(b)>>

\* Iterator::next for Iter: <<the base afterwards, the item yielded>>
Iter_next(b, inc) == yield_base(skip(b, inc))

\* ------------------------------------------------------------------------
\* iter.rs: the combinators.  A pipeline `st` is the record of an inner
\* source (src = "Iter": base, increment; src = "Vec": items, pos) and the
\* combinators wrapped around it, innermost first (layers).  X_next(k, st)
\* is next() of the k-th layer; it returns the item (out), the pipeline
\* afterwards (st) and the items the layer pulled from its inner iterator
\* (seen).
\* ------------------------------------------------------------------------
until(ending) == <<"Until", ending>>

times(n) == <<"Times", n, 0>>

every(matcher) == <<"Filter", matcher>>

without(matcher) == <<"Without", matcher>>

RECURSIVE inner_next(_, _)
RECURSIVE filter_loop(_, _, _, _)

\* next() of the innermost iterator: an Iter, or a std iterator over a Vec
pulled(st, r) == [out |-> r[2], st |-> [st EXCEPT !.base = r[1]], seen |-> <<>>]

source_next(st) ==
    IF st.src = "Iter"
    THEN pulled(st, Iter_next(st.base, st.increment))
    ELSE IF st.pos < Len(st.items)
         THEN [out |-> st.items[st.pos + 1], st |-> [st EXCEPT !.pos = @ + 1], seen |-> <<>>]
         ELSE [out |-> None, st |-> st, seen |-> <<>>]

\* the loop of FilterIter::next (keep = TRUE) and WithoutIter::next (keep = FALSE)
filter_loop(k, st, keep, seen) ==
    LET r == inner_next(k - 1, st)
        sn == Append(seen, r.out)
    IN  IF r.out = None THEN [out |-> None, st |-> r.st, seen |-> sn]
        ELSE IF IsErr(r.out) THEN [out |-> r.out, st |-> r.st, seen |-> sn]
        ELSE LET m == matches(st.layers[k][2], r.out[2])
             IN  IF IsErr(m) THEN [out |-> m, st |-> r.st, seen |-> sn]
                 ELSE IF m[2] = keep THEN [out |-> r.out, st |-> r.st, seen |-> sn]
                 ELSE filter_loop(k, r.st, keep, sn)

\* mutant of FilterIter_next: the items that do not match are the ones kept
FilterIter_next_inverted(k, st) == filter_loop(k, st, FALSE, <<>>)

FilterIter_next(k, st) == filter_loop(k, st, TRUE, <<>>)

WithoutIter_next(k, st) == filter_loop(k, st, FALSE, <<>>)

\* mutant of until_check: the bound is inclusive
until_check_inclusive(c, ending) ==
    IF IsErr(c) THEN c
    ELSE IF is_moment(c[2])
         THEN (IF lt(get_moment(c[2])[2], ending) \/ get_moment(c[2])[2] = ending THEN c ELSE None)
         ELSE Err(<<"ArgumentErrorNotAMoment", name(c[2])>>)

\* the inner match of UntilIter::next on the calculated item c
until_check(c, ending) ==
    IF IsErr(c) THEN c
    ELSE IF is_moment(c[2])
         THEN (IF lt(get_moment(c[2])[2], ending) THEN c ELSE None)
         ELSE Err(<<"ArgumentErrorNotAMoment", name(c[2])>>)

UntilIter_next(k, st) ==
    LET r == inner_next(k - 1, st)
        o == IF r.out = None THEN None
             ELSE IF IsErr(r.out) THEN r.out
             ELSE until_check(calculate(r.out[2]), st.layers[k][2])
    IN  [out |-> o, st |-> r.st, seen |-> <<r.out>>]

\* mutant of TimesIter_next: an inner error ends the sequence
TimesIter_next_error_ends(k, st) ==
    IF st.layers[k][2] = st.layers[k][3]
    THEN [out |-> None, st |-> st, seen |-> <<>>]
    ELSE LET r == inner_next(k - 1, [st EXCEPT !.layers[k][3] = @ + 1])
         IN  [out |-> IF IsErr(r.out) THEN None ELSE r.out, st |-> r.st, seen |-> <<r.out>>]

TimesIter_next(k, st) ==
    IF st.layers[k][2] = st.layers[k][3]
    THEN [out |-> None, st |-> st, seen |-> <<>>]
    ELSE LET r == inner_next(k - 1, [st EXCEPT !.layers[k][3] = @ + 1])
         IN  [out |-> r.out, st |-> r.st, seen |-> <<r.out>>]

inner_next(k, st) ==
    IF k = 0 THEN source_next(st)
    ELSE CASE st.layers[k][1] = "Until" -> UntilIter_next(k, st)
           [] st.layers[k][1] = "Times" -> TimesIter_next(k, st)
           [] st.layers[k][1] = "Filter" -> FilterIter_next(k, st)
           [] st.layers[k][1] = "Without" -> WithoutIter_next(k, st)

\* ------------------------------------------------------------------------
\* parser/timetype.rs, parser/iterator.rs: lowering of the parsed AST
\* ------------------------------------------------------------------------
unit_to_amount(i, unit) ==
    CASE unit = "Second" -> Seconds(i)
      [] unit = "Minute" -> Minutes(i)
      [] unit = "Hour" -> Hours(i)
      [] unit = "Day" -> Days(i)
      [] unit = "Week" -> Weeks(i)
      [] unit = "Month" -> Months(i)
      [] unit = "Year" -> Years(i)

\* Amount(i, unit) is <<"Amount", i, unit>>
Amount_into_timetype(a) == Ok(unit_to_amount(a[2], a[3]))

RECURSIVE AmountExpr_into_timetype(_)

\* AmountExpr { amount, next } is <<"AmountExpr", amount, next>> with next
\* None or <<operator, AmountExpr>>
AmountExpr_into_timetype(e) ==
    LET amount == Amount_into_timetype(e[2])
    IN  IF e[3] = None THEN amount
        ELSE LET other == AmountExpr_into_timetype(e[3][2])
             IN  IF IsErr(other) THEN other
                 ELSE IF e[3][1] = "Plus" THEN Ok(add_assign(amount[2], other[2]))
                 ELSE Ok(sub_assign(amount[2], other[2]))

\* ExactDate::Iso8601Date(YMD) is <<"Iso8601Date", y, m, d>>,
\* ExactDate::Iso8601DateTime(YMD, time) is <<"Iso8601DateTime", y, m, d, h, mi, s>>
ExactDate_into_timetype(e) ==
    IF e[1] = "Iso8601Date"
    THEN (IF from_ymd_opt(e[2], e[3], e[4]) /\ and_hms_opt(0, 0, 0)
          THEN Ok(Moment(<<e[2], e[3], e[4], 0, 0, 0>>))
          ELSE Err(<<"OutOfBounds", e[2], e[3], e[4], 0, 0, 0>>))
    ELSE (IF from_ymd_opt(e[2], e[3], e[4]) /\ and_hms_opt(e[5], e[6], e[7])
          THEN Ok(Moment(<<e[2], e[3], e[4], e[5], e[6], e[7]>>))
          ELSE Err(<<"OutOfBounds", e[2], e[3], e[4], e[5], e[6], e[7]>>))

\* Date(exact, tail) is <<"Date", exact, tail>> with tail None or
\* <<operator, AmountExpr>>
Date_into_timetype(d) ==
    LET b == ExactDate_into_timetype(d[2])
    IN  IF IsErr(b) \/ d[3] = None THEN b
        ELSE LET amount == AmountExpr_into_timetype(d[3][2])
             IN  IF IsErr(amount) THEN amount
                 ELSE IF d[3][1] = "Plus" THEN Ok(Addition(b[2], amount[2]))
                 ELSE Ok(Subtraction(b[2], amount[2]))

\* the `recur` of into_user_iterator; Iterspec::Every(i, unit) is
\* <<"Every", i, unit>>, the others <<"Hourly">> and so on
recur_of(spec) ==
    CASE spec[1] = "Every" -> unit_to_amount(spec[2], spec[3])
      [] spec[1] = "Secondly" -> unit_to_amount(1, "Second")
      [] spec[1] = "Minutely" -> unit_to_amount(1, "Minute")
      [] spec[1] = "Hourly" -> unit_to_amount(1, "Hour")
      [] spec[1] = "Daily" -> unit_to_amount(1, "Day")
      [] spec[1] = "Weekly" -> unit_to_amount(1, "Week")
      [] spec[1] = "Monthly" -> unit_to_amount(1, "Month")
      [] spec[1] = "Yearly" -> unit_to_amount(1, "Year")

\* the tail of the closure into_ndt: get_moment().ok_or(..).map(clone)
moment_or(c) ==
    IF IsErr(c) THEN c
    ELSE IF get_moment(c[2]) = None THEN Err(<<"NotADateInsideIterator">>)
    ELSE Ok(get_moment(c[2])[2])

\* the closure into_ndt applied to the Result of into_timetype()
into_ndt(r) == IF IsErr(r) THEN r ELSE moment_or(calculate(r[2]))

\* Iterator(date, spec, until) is <<"Iterator", date, spec, until>> with
\* until None, <<"Exact", ExactDate>> or <<"Times", i>>.  Ok carries
\* <<base, increment, layers>> of the UserIterator.
\* the three arms of `match self.2`, given the Results b and e of into_ndt
\* for the base date and the until date
user_iterator(b, e, recur, spec) ==
    IF IsErr(b) THEN b
    ELSE LET it == Iter_build(b[2], recur)
         IN  IF spec = None
             THEN (IF IsErr(it) THEN it ELSE Ok(<<it[2][1], it[2][2], <<>> >>))
             ELSE IF spec[1] = "Exact"
             THEN (IF IsErr(e) THEN e
                   ELSE IF IsErr(it) THEN it
                   ELSE Ok(<<it[2][1], it[2][2], <<until(e[2])>> >>))
             ELSE (IF IsErr(it) THEN it
                   ELSE Ok(<<it[2][1], it[2][2], <<times(spec[2])>> >>))

into_user_iterator(self) ==
    user_iterator(into_ndt(Date_into_timetype(self[2])),
                  IF self[4] # None /\ self[4][1] = "Exact"
                  THEN into_ndt(ExactDate_into_timetype(self[4][2])) ELSE None,
                  recur_of(self[3]), self[4])

\* ------------------------------------------------------------------------
\* The state machine: a caller constructs an iterator pipeline and pulls it
\* ------------------------------------------------------------------------
VARIABLES
    input,        \* what the caller hands to the constructor
    built,        \* None before construction, then the constructor's Result
    src,          \* "Iter" or "Vec": the innermost iterator of the pipeline
    base,         \* Iter.base
    increment,    \* Iter.increment
    items,        \* the items of a Vec source
    pos,          \* how many of them its iterator has handed out
    layers,       \* the combinators around the source, innermost first
    out,          \* what the latest next() of the pipeline returned
    seen,         \* what the outermost combinator pulled during that next()
    log,          \* everything next() returned so far
    pulls,        \* number of next() calls so far
    inner_pulls,  \* number of items the outermost combinator pulled so far
    prev,         \* Iter.base before the latest next()
    expr,         \* the expression handed to calculate
    result,       \* what calculate returned for it
    tick          \* flips with every item a consuming loop receives

vars == <<input, built, src, base, increment, items, pos, layers, out, seen,
          log, pulls, inner_pulls, prev, expr, result, tick>>

Idle == <<"Idle">>

UnitSet == {"Second", "Minute", "Hour", "Day", "Week", "Month", "Year"}

Bases == {<<2000, 1, 1, 0, 0, 0>>, <<2000, 12, 30, 0, 0, 0>>,
          <<262143, 12, 31, 23, 59, 59>>}

Endings == {<<2000, 1, 1, 0, 0, 0>>, <<2000, 1, 1, 0, 2, 0>>, <<2001, 1, 1, 0, 0, 0>>}

Incs ==
    {unit_to_amount(i, u) : i \in (0 - 1)..MaxCount, u \in UnitSet}
    \cup {Addition(Minutes(1), Seconds(1)), Subtraction(Hours(1), Minutes(1)),
          Moment(<<2000, 1, 1, 0, 0, 0>>), EndOfMonth(Moment(<<2000, 1, 1, 0, 0, 0>>))}

IterWraps ==
    {<<>>} \cup {<<until(e)>> : e \in Endings}
           \cup {<<times(n)>> : n \in (0 - 1)..MaxTimes}

\* Iter::build(base, inc), optionally followed by .until(e) or .times(n)
ApiInputs == {<<"api", b, inc, w>> : b \in Bases, inc \in Incs, w \in IterWraps}

ParsedDates ==
    {<<"Date", <<"Iso8601Date", 2017, 1, 1>>, None>>,
     <<"Date", <<"Iso8601DateTime", 2016, 12, 31, 0, 0, 0>>,
       <<"Plus", <<"AmountExpr", <<"Amount", 1, "Day">>, None>> >> >>,
     <<"Date", <<"Iso8601Date", 2017, 2, 30>>, None>>}

Iterspecs ==
    {<<"Secondly">>, <<"Minutely">>, <<"Hourly">>, <<"Daily">>, <<"Weekly">>,
     <<"Monthly">>, <<"Yearly">>}
    \cup {<<"Every", i, u>> : i \in 0..MaxCount, u \in {"Minute", "Week"}}

UntilSpecs ==
    {None, <<"Exact", <<"Iso8601DateTime", 2017, 1, 1, 5, 0, 0>> >>,
     <<"Exact", <<"Iso8601Date", 2017, 1, 1>> >>}
    \cup {<<"Times", n>> : n \in 0..MaxTimes}

\* the AST of '<date> <iterspec> [<until>]'
ParsedInputs ==
    {<<"Iterator", d, sp, u>> : d \in ParsedDates, sp \in Iterspecs, u \in UntilSpecs}

Monday3 == <<2000, 1, 3, 0, 0, 0>>

Tuesday1 == <<2000, 2, 1, 0, 0, 0>>

\* what an arbitrary inner iterator may yield
ItemSet ==
    {Ok(Moment(Monday3)), Ok(Moment(Tuesday1)), Ok(Seconds(5)),
     Ok(Addition(Moment(Monday3), Days(1))), Ok(Addition(Seconds(1), Moment(Monday3))),
     Err(<<"UnknownError">>)}

RECURSIVE SeqsUpTo(_, _)
SeqsUpTo(S, n) ==
    IF n = 0 THEN {<<>>}
    ELSE LET T == SeqsUpTo(S, n - 1)
         IN  T \cup {Append(t, x) : t \in {u \in T : Len(u) = n - 1}, x \in S}

Matchers == {<<"Day", "Monday">>, <<"Month", "February">>}

VecWraps ==
    {<<until(Tuesday1)>>, <<until(Monday3)>>}
    \cup {<<times(n)>> : n \in (0 - 1)..MaxTimes}
    \cup {<<every(m)>> : m \in Matchers}
    \cup {<<without(m)>> : m \in Matchers}
    \cup {<<every(<<"Day", "Monday">>), times(1)>>,
          <<every(<<"Day", "Monday">>), without(<<"Month", "February">>)>>}
    \cup {<<every(m), without(m)>> : m \in Matchers}

\* a combinator chain over an arbitrary inner iterator
VecInputs == {<<"vec", l, w>> : l \in SeqsUpTo(ItemSet, MaxLen), w \in VecWraps}

Fresh ==
    /\ tick = FALSE
    /\ built = None
    /\ src = "None"
    /\ base = None
    /\ increment = None
    /\ items = <<>>
    /\ pos = 0
    /\ layers = <<>>
    /\ out = Idle
    /\ seen = <<>>
    /\ log = <<>>
    /\ pulls = 0
    /\ inner_pulls = 0
    /\ prev = None
    /\ result = None

Init ==
    /\ \/ input \in ApiInputs
       \/ input \in ParsedInputs
       \/ input \in VecInputs
    /\ expr = None
    /\ Fresh

\* Iter::build(base, inc) and the wrapping .until(e) / .times(n)
Build ==
    /\ input[1] = "api"
    /\ built = None
    /\ \E it \in {Iter_build(input[2], input[3])} :
           IF IsOk(it)
           THEN /\ built' = Ok(<<>>)
                /\ src' = "Iter"
                /\ base' = it[2][1]
                /\ increment' = it[2][2]
                /\ layers' = input[4]
           ELSE /\ built' = it
                /\ UNCHANGED <<src, base, increment, layers>>
    /\ UNCHANGED <<input, items, pos, out, seen, log, pulls, inner_pulls, prev, expr, result, tick>>

\* Iterator::into_user_iterator on the parsed AST
IntoUserIterator ==
    /\ input[1] = "Iterator"
    /\ built = None
    /\ \E ui \in {into_user_iterator(input)} :
           IF IsOk(ui)
           THEN /\ built' = Ok(<<>>)
                /\ src' = "Iter"
                /\ base' = ui[2][1]
                /\ increment' = ui[2][2]
                /\ layers' = ui[2][3]
           ELSE /\ built' = ui
                /\ UNCHANGED <<src, base, increment, layers>>
    /\ UNCHANGED <<input, items, pos, out, seen, log, pulls, inner_pulls, prev, expr, result, tick>>

\* EveryFilter::every, WithoutFilter::without, Until::until, Times::times
\* applied to an arbitrary iterator of Result<TimeType>
Wrap ==
    /\ input[1] = "vec"
    /\ built = None
    /\ built' = Ok(<<>>)
    /\ src' = "Vec"
    /\ items' = input[2]
    /\ layers' = input[3]
    /\ UNCHANGED <<input, base, increment, pos, out, seen, log, pulls, inner_pulls, prev, expr, result, tick>>

pipeline ==
    [src |-> src, base |-> base, increment |-> increment, items |-> items,
     pos |-> pos, layers |-> layers]

TopKind == IF layers = <<>> THEN "Iter" ELSE layers[Len(layers)][1]

\* one call of next() on the outermost iterator
Pull ==
    /\ IsOk(built)
    /\ pulls < MaxPulls
    /\ \E r \in {inner_next(Len(layers), pipeline)} :
           /\ out' = r.out
           /\ seen' = r.seen
           /\ base' = r.st.base
           /\ pos' = r.st.pos
           /\ layers' = r.st.layers
           /\ log' = Append(log, r.out)
           /\ inner_pulls' = inner_pulls + Len(r.seen)
    /\ pulls' = pulls + 1
    /\ prev' = base
    /\ UNCHANGED <<input, built, src, increment, items, expr, result, tick>>

IterNext == TopKind = "Iter" /\ Pull

UntilNext == TopKind = "Until" /\ Pull

TimesNext == TopKind = "Times" /\ Pull

FilterNext == TopKind = "Filter" /\ Pull

WithoutNext == TopKind = "Without" /\ Pull

Next ==
    \/ Build
    \/ IntoUserIterator
    \/ Wrap
    \/ IterNext
    \/ UntilNext
    \/ TimesNext
    \/ FilterNext
    \/ WithoutNext

Spec == Init /\ [][Next]_vars

\* ------------------------------------------------------------------------
\* The evaluator on its own: a caller hands one expression to calculate
\* ------------------------------------------------------------------------
Amounts == {<<u, x>> : u \in AmountNames, x \in (0 - MaxCount)..MaxCount}

CalcExprs ==
    {Addition(a, b) : a, b \in Amounts} \cup {Subtraction(a, b) : a, b \in Amounts}

InitCalc ==
    /\ input = None
    /\ expr \in CalcExprs
    /\ Fresh

\* TimeType::calculate on the expression
Calculate ==
    /\ expr # None
    /\ result = None
    /\ result' = calculate(expr)
    /\ UNCHANGED <<input, built, src, base, increment, items, pos, layers, out,
                   seen, log, pulls, inner_pulls, prev, expr, tick>>

NextCalc == Calculate

SpecCalc == InitCalc /\ [][NextCalc]_vars

\* ------------------------------------------------------------------------
\* A consumer that exhausts a bounded recurrence (`.collect()`, `for x in it`)
\* ------------------------------------------------------------------------
LiveInputs ==
    LET LiveIncs == {Seconds(0), Minutes(1), Hours(1), Days(1), Months(1)}
        LiveEndings == {<<2000, 1, 1, 0, 0, 0>>, <<2000, 1, 1, 0, 2, 0>>,
                        <<2000, 1, 2, 0, 0, 0>>}
        LiveWraps == {<<until(e)>> : e \in LiveEndings}
                     \cup {<<times(n)>> : n \in 0..MaxTimes}
    IN  {<<"api", <<2000, 1, 1, 0, 0, 0>>, inc, w>> : inc \in LiveIncs, w \in LiveWraps}

InitLive ==
    /\ input \in LiveInputs
    /\ expr = None
    /\ Fresh

\* one turn of the consuming loop: it calls next() and stops at None
Consume ==
    /\ IsOk(built)
    /\ out # None
    /\ \E r \in {inner_next(Len(layers), pipeline)} :
           /\ out' = r.out
           /\ base' = r.st.base
           /\ pos' = r.st.pos
           /\ layers' = r.st.layers
    /\ tick' = ~tick
    /\ UNCHANGED <<input, built, src, increment, items, seen, log, pulls,
                   inner_pulls, prev, expr, result>>

NextLive ==
    \/ Build
    \/ Consume

\* A turn of the loop as its caller sees it: the loop has an iterator that
\* has not ended, and it receives one more item.  Under NextLive the tick
\* flips in the Consume steps and in no other, and Consume is enabled
\* whenever the loop has such an iterator.
Turn == IsOk(built) /\ out # None /\ tick' = ~tick

\* the construction returns and the loop keeps taking its turns
SpecLive == InitLive /\ [][NextLive]_vars /\ WF_vars(Build) /\ WF_tick(Turn)

\* ------------------------------------------------------------------------
\* The evaluator on calendar expressions, end-of operators and parsed
\* expressions: a caller lowers a parsed expression or builds one with the
\* operators of TimeType, calls calculate, and may feed the result back
\* ------------------------------------------------------------------------
\* impl IntoTimeType for parser::TimeType; TimeType::Date(d) is the Date d,
\* TimeType::AmountExpr(a) the AmountExpr a
TimeType_into_timetype(t) ==
    IF t[1] = "Date" THEN Date_into_timetype(t) ELSE AmountExpr_into_timetype(t)

EvalMoments ==
    {<<2000, 1, 1, 0, 0, 0>>, <<2000, 2, 29, 12, 30, 30>>, <<2000, 3, 1, 0, 0, 0>>,
     <<2000, 12, 31, 23, 59, 59>>, <<2001, 1, 31, 0, 0, 0>>, <<1999, 12, 1, 6, 0, 59>>,
     <<2000, 12, 30, 0, 0, 0>>}

EvalAmounts == {<<u, x>> : u \in AmountNames, x \in 0..MaxAmount}

\* the amounts of the chains
ChainAmounts == {<<"Amount", i, u>> : i \in 1..MaxCount, u \in {"Minute", "Hour", "Day"}}

\* the AST of 'a1 op1 a2 op2 a3', of '<date> op0 a1 op1 a2' and of a date
\* that does not exist
EvalTexts ==
    {<<"AmountExpr", a1, <<op1, <<"AmountExpr", a2, <<op2, <<"AmountExpr", a3, None>> >> >> >> >> :
        a1 \in ChainAmounts, a2 \in ChainAmounts, a3 \in ChainAmounts,
        op1 \in {"Plus", "Minus"}, op2 \in {"Plus", "Minus"}}
    \cup
    {<<"Date", d, <<op0, <<"AmountExpr", a1, <<op1, <<"AmountExpr", a2, None>> >> >> >> >> :
        d \in {<<"Iso8601Date", 2017, 1, 1>>, <<"Iso8601DateTime", 2000, 3, 1, 12, 0, 0>>,
               <<"Iso8601Date", 2017, 2, 30>>},
        a1 \in ChainAmounts, a2 \in ChainAmounts,
        op0 \in {"Plus", "Minus"}, op1 \in {"Plus", "Minus"}}

\* Years(k * 2^32 + r) for counts beyond 32 bits, as <<"Years", r, k>>
WideYears == {<<"Years", r, k>> : r \in 0..MaxCount, k \in {0 - 1, 1}}

\* operands of every variant: amounts, a moment, composites and an end-of
Operands ==
    Amounts
    \cup {Moment(m) : m \in EvalMoments}
    \cup {Addition(Moment(<<2000, 1, 1, 0, 0, 0>>), Seconds(1)),
          Subtraction(Moment(<<2000, 1, 1, 0, 0, 0>>), Seconds(1)),
          Addition(Minutes(1), Seconds(1)), Subtraction(Minutes(1), Seconds(1)),
          Addition(Moment(<<2000, 1, 1, 0, 0, 0>>), Moment(<<2000, 1, 1, 0, 0, 0>>)),
          EndOfDay(Moment(<<2000, 1, 1, 0, 0, 0>>))}

\* a moment plus or minus an amount, also a count of years beyond 32 bits;
\* any operand plus or minus any operand of
\* the first moment; the end-of operators on operands, on moments plus
\* amounts and on each other; left-nested chains of amounts
EvalExprs ==
    {Addition(Moment(m), a) : m \in EvalMoments, a \in EvalAmounts}
    \cup {Subtraction(Moment(m), a) : m \in EvalMoments, a \in EvalAmounts}
    \cup {<<o, Moment(m), a>> :
            o \in {"Addition", "Subtraction"}, m \in EvalMoments, a \in WideYears}
    \cup {Addition(a, b) : a \in Operands, b \in Operands}
    \cup {Subtraction(a, b) : a \in Operands, b \in Operands}
    \cup {<<x, e>> : x \in EndOfNames, e \in Operands}
    \cup {<<x, Addition(Moment(m), a)>> :
            x \in EndOfNames, m \in EvalMoments, a \in {Seconds(1), Days(1), Months(2)}}
    \cup {<<x, <<y, Moment(m)>> >> : x \in EndOfNames, y \in EndOfNames, m \in EvalMoments}
    \cup {<<o1, <<o2, a, b>>, c>> :
            o1 \in {"Addition", "Subtraction"}, o2 \in {"Addition", "Subtraction"},
            a \in Amounts, b \in {Seconds(1), Minutes(0 - 1), Months(2)},
            c \in {Seconds(2), Hours(1), Years(0)}}

InitEval ==
    /\ \/ input \in EvalTexts /\ expr = None
       \/ input = None /\ expr \in EvalExprs
    /\ Fresh

\* into_timetype() on the parsed expression: the lowered tree, or the error
IntoTimeType ==
    /\ input # None
    /\ expr = None
    /\ result = None
    /\ \E r \in {TimeType_into_timetype(input)} :
           IF IsOk(r) THEN expr' = r[2] /\ result' = result
           ELSE expr' = expr /\ result' = r
    /\ UNCHANGED <<input, built, src, base, increment, items, pos, layers, out,
                   seen, log, pulls, inner_pulls, prev, tick>>

\* calculate() on the value a first calculate() returned
CalculateAgain ==
    /\ IsOk(result)
    /\ log = <<>>
    /\ prev' = expr
    /\ log' = <<result>>
    /\ expr' = result[2]
    /\ result' = calculate(result[2])
    /\ UNCHANGED <<input, built, src, base, increment, items, pos, layers, out,
                   seen, pulls, inner_pulls, tick>>

\* the way back: (moment + amount).calculate() gave r, and the caller
\* evaluates r - amount
SubtractAgain ==
    /\ IsOk(result)
    /\ log = <<>>
    /\ name(expr) = "Addition" /\ is_moment(expr[2]) /\ is_a_amount(expr[3])
    /\ prev' = expr
    /\ log' = <<result>>
    /\ \E e \in {Subtraction(result[2], expr[3])} :
           expr' = e /\ result' = calculate(e)
    /\ UNCHANGED <<input, built, src, base, increment, items, pos, layers, out,
                   seen, pulls, inner_pulls, tick>>

NextEval ==
    \/ IntoTimeType
    \/ Calculate
    \/ CalculateAgain
    \/ SubtractAgain

SpecEval == InitEval /\ [][NextEval]_vars

\* ------------------------------------------------------------------------
\* An Iter on its own: a caller holds a built Iter and calls next(), skip()
\* and rollback() in any order.  The log keeps what each call returned:
\* the item of a next(), <<"skip", r>> and <<"rollback", r>> for the others.
\* ------------------------------------------------------------------------
InitIter ==
    /\ \E m \in EvalMoments \cup Bases, inc \in {i \in Incs : is_a_amount(i)} :
           /\ input = <<"api", m, inc, <<>> >>
           /\ built = Ok(<<>>)
           /\ base = Iter_build(m, inc)[2][1]
           /\ increment = Iter_build(m, inc)[2][2]
    /\ src = "Iter"
    /\ items = <<>> /\ pos = 0 /\ layers = <<>>
    /\ out = Idle /\ seen = <<>> /\ log = <<>>
    /\ pulls = 0 /\ inner_pulls = 0
    /\ prev = None /\ expr = None /\ result = None /\ tick = FALSE

\* Iter::skip
IterSkip ==
    /\ pulls < MaxPulls
    /\ \E r \in {skip(base, increment)} :
           /\ base' = r[1]
           /\ out' = r[2]
           /\ log' = Append(log, <<"skip", r[2]>>)
    /\ pulls' = pulls + 1
    /\ prev' = base
    /\ UNCHANGED <<input, built, src, increment, items, pos, layers, seen,
                   inner_pulls, expr, result, tick>>

\* Iter::rollback
IterRollback ==
    /\ pulls < MaxPulls
    /\ \E r \in {rollback(base, increment)} :
           /\ base' = r[1]
           /\ out' = r[2]
           /\ log' = Append(log, <<"rollback", r[2]>>)
    /\ pulls' = pulls + 1
    /\ prev' = base
    /\ UNCHANGED <<input, built, src, increment, items, pos, layers, seen,
                   inner_pulls, expr, result, tick>>

NextIter ==
    \/ IterNext
    \/ IterSkip
    \/ IterRollback

SpecIter == InitIter /\ [][NextIter]_vars

\* ------------------------------------------------------------------------
\* parser/timetype.rs, parser/iterator.rs, parser/mod.rs: the parsers.  A
\* text is the sequence of its characters; a parser returns Ok(<<rest, v>>)
\* with the unconsumed input, or Err(<<"NomError">>).
\* ------------------------------------------------------------------------
\* the byte strings handed to tag()
Word ==
    [seconds |-> <<"s", "e", "c", "o", "n", "d", "s">>,
     second |-> <<"s", "e", "c", "o", "n", "d">>,
     secs |-> <<"s", "e", "c", "s">>,
     sec |-> <<"s", "e", "c">>,
     s |-> <<"s">>,
     minutes |-> <<"m", "i", "n", "u", "t", "e", "s">>,
     minute |-> <<"m", "i", "n", "u", "t", "e">>,
     mins |-> <<"m", "i", "n", "s">>,
     min |-> <<"m", "i", "n">>,
     hours |-> <<"h", "o", "u", "r", "s">>,
     hour |-> <<"h", "o", "u", "r">>,
     hrs |-> <<"h", "r", "s">>,
     hr |-> <<"h", "r">>,
     days |-> <<"d", "a", "y", "s">>,
     day |-> <<"d", "a", "y">>,
     d |-> <<"d">>,
     weeks |-> <<"w", "e", "e", "k", "s">>,
     week |-> <<"w", "e", "e", "k">>,
     w |-> <<"w">>,
     months |-> <<"m", "o", "n", "t", "h", "s">>,
     month |-> <<"m", "o", "n", "t", "h">>,
     years |-> <<"y", "e", "a", "r", "s">>,
     year |-> <<"y", "e", "a", "r">>,
     yrs |-> <<"y", "r", "s">>,
     secondly |-> <<"s", "e", "c", "o", "n", "d", "l", "y">>,
     minutely |-> <<"m", "i", "n", "u", "t", "e", "l", "y">>,
     hourly |-> <<"h", "o", "u", "r", "l", "y">>,
     daily |-> <<"d", "a", "i", "l", "y">>,
     weekly |-> <<"w", "e", "e", "k", "l", "y">>,
     monthly |-> <<"m", "o", "n", "t", "h", "l", "y">>,
     yearly |-> <<"y", "e", "a", "r", "l", "y">>,
     every |-> <<"e", "v", "e", "r", "y">>,
     until |-> <<"u", "n", "t", "i", "l">>,
     times |-> <<"t", "i", "m", "e", "s">>,
     today |-> <<"t", "o", "d", "a", "y">>,
     yesterday |-> <<"y", "e", "s", "t", "e", "r", "d", "a", "y">>,
     tomorrow |-> <<"t", "o", "m", "o", "r", "r", "o", "w">>,
     plus |-> <<"+">>,
     minus |-> <<"-">>]

\* nom::bytes::complete::tag
tag(t, i) ==
    IF Len(i) >= Len(t) /\ SubSeq(i, 1, Len(t)) = t
    THEN Ok(<<SubSeq(i, Len(t) + 1, Len(i)), t>>)
    ELSE Err(<<"NomError">>)

\* alt over tags, each mapped to a value: the first alternative that
\* succeeds, in the order written
alt_tags(alts, i) ==
    LET taken(k) == Ok(<<SubSeq(i, Len(alts[k][1]) + 1, Len(i)), alts[k][2]>>)
        first(hits) ==
            IF hits = {} THEN Err(<<"NomError">>)
            ELSE taken(CHOOSE h \in hits : \A g \in hits : h <= g)
    IN  first({k \in 1..Len(alts) : IsOk(tag(alts[k][1], i))})

\* nom::character::complete::multispace0; the value is the number of
\* characters consumed, which multispace1 requires to be positive
multispace0(i) ==
    LET taken(n) == Ok(<<SubSeq(i, n + 1, Len(i)), n>>)
    IN  taken(CHOOSE k \in 0..Len(i) :
                  /\ \A j \in 1..k : i[j] \in {" ", "\t", "\n", "\r"}
                  /\ k < Len(i) => i[k + 1] \notin {" ", "\t", "\n", "\r"})

\* delimited(multispace0, digit1, multispace0) mapped to an i64
integer(i) ==
    LET IsDigit(c) == c \in {"0", "1", "2", "3", "4", "5", "6", "7", "8", "9"}
        Value(c) ==
            CHOOSE v \in 0..9 :
                <<"0", "1", "2", "3", "4", "5", "6", "7", "8", "9">>[v + 1] = c
        RECURSIVE val(_, _)
        val(a, k) == IF k = 0 THEN 0 ELSE val(a, k - 1) * 10 + Value(a[k])
        digit1(a, n) ==
            IF n = 0 THEN Err(<<"NomError">>)
            ELSE Ok(<<multispace0(SubSeq(a, n + 1, Len(a)))[2][1], val(a, n)>>)
        spaced(a) ==
            digit1(a, CHOOSE k \in 0..Len(a) :
                          /\ \A j \in 1..k : IsDigit(a[j])
                          /\ k < Len(a) => ~IsDigit(a[k + 1]))
    IN  spaced(multispace0(i)[2][1])

\* the same tags with the short ones first
unit_parser_short_first(i) ==
    alt_tags(<<
        <<Word.s, "Second">>, <<Word.sec, "Second">>, <<Word.secs, "Second">>,
        <<Word.second, "Second">>, <<Word.seconds, "Second">>,
        <<Word.min, "Minute">>, <<Word.mins, "Minute">>,
        <<Word.minute, "Minute">>, <<Word.minutes, "Minute">>,
        <<Word.hr, "Hour">>, <<Word.hrs, "Hour">>,
        <<Word.hour, "Hour">>, <<Word.hours, "Hour">>,
        <<Word.d, "Day">>, <<Word.day, "Day">>, <<Word.days, "Day">>,
        <<Word.w, "Week">>, <<Word.week, "Week">>, <<Word.weeks, "Week">>,
        <<Word.month, "Month">>, <<Word.months, "Month">>,
        <<Word.yrs, "Year">>, <<Word.year, "Year">>, <<Word.years, "Year">> >>, i)

unit_parser(i) ==
    alt_tags(<<
        <<Word.seconds, "Second">>, <<Word.second, "Second">>,
        <<Word.secs, "Second">>, <<Word.sec, "Second">>, <<Word.s, "Second">>,
        <<Word.minutes, "Minute">>, <<Word.minute, "Minute">>,
        <<Word.mins, "Minute">>, <<Word.min, "Minute">>,
        <<Word.hours, "Hour">>, <<Word.hour, "Hour">>,
        <<Word.hrs, "Hour">>, <<Word.hr, "Hour">>,
        <<Word.days, "Day">>, <<Word.day, "Day">>, <<Word.d, "Day">>,
        <<Word.weeks, "Week">>, <<Word.week, "Week">>, <<Word.w, "Week">>,
        <<Word.months, "Month">>, <<Word.month, "Month">>,
        <<Word.years, "Year">>, <<Word.year, "Year">>, <<Word.yrs, "Year">> >>, i)

\* the seven keywords, which unit_alias and iter_spec list alike
unit_alias(i) ==
    alt_tags(<<
        <<Word.secondly, "Secondly">>, <<Word.minutely, "Minutely">>,
        <<Word.hourly, "Hourly">>, <<Word.daily, "Daily">>,
        <<Word.weekly, "Weekly">>, <<Word.monthly, "Monthly">>,
        <<Word.yearly, "Yearly">> >>, i)

operator_parser(i) == alt_tags(<< <<Word.plus, "Plus">>, <<Word.minus, "Minus">> >>, i)

\* Amount(number, unit), or Amount(1, unit.into()) for a keyword
amount_parser(i) ==
    LET into == [Secondly |-> "Second", Minutely |-> "Minute", Hourly |-> "Hour",
                 Daily |-> "Day", Weekly |-> "Week", Monthly |-> "Month",
                 Yearly |-> "Year"]
        keyword(alias) ==
            IF IsOk(alias) THEN Ok(<<alias[2][1], <<"Amount", 1, into[alias[2][2]]>> >>)
            ELSE alias
        with_unit(number, unit) ==
            IF IsOk(unit) THEN Ok(<<unit[2][1], <<"Amount", number[2][2], unit[2][2]>> >>)
            ELSE keyword(unit_alias(i))
        with_number(number) ==
            IF IsOk(number) THEN with_unit(number, unit_parser(number[2][1]))
            ELSE keyword(unit_alias(i))
    IN  with_number(integer(i))

RECURSIVE amount_expr(_)

\* amount_parser, multispace0, opt(complete(amount_expr_next)) with
\* amount_expr_next = operator_parser, multispace0, amount_expr; a failing
\* option consumes nothing
amount_expr(i) ==
    LET alone(amount, a) == Ok(<<a, <<"AmountExpr", amount[2][2], None>> >>)
        with_next(amount, a, op, next) ==
            IF IsOk(next)
            THEN Ok(<<next[2][1],
                      <<"AmountExpr", amount[2][2], <<op[2][2], next[2][2]>> >> >>)
            ELSE alone(amount, a)
        with_op(amount, a, op) ==
            IF IsOk(op)
            THEN with_next(amount, a, op, amount_expr(multispace0(op[2][1])[2][1]))
            ELSE alone(amount, a)
        first(amount) ==
            IF IsErr(amount) THEN amount
            ELSE with_op(amount, multispace0(amount[2][1])[2][1],
                         operator_parser(multispace0(amount[2][1])[2][1]))
    IN  first(amount_parser(i))

\* iso8601::parsers::parse_date on the form YYYY-MM-DD
parse_date(i) ==
    LET IsDigit(c) == c \in {"0", "1", "2", "3", "4", "5", "6", "7", "8", "9"}
        Value(c) ==
            CHOOSE v \in 0..9 :
                <<"0", "1", "2", "3", "4", "5", "6", "7", "8", "9">>[v + 1] = c
        two(p) == Value(i[p]) * 10 + Value(i[p + 1])
    IN  IF /\ Len(i) >= 10
           /\ \A p \in {1, 2, 3, 4, 6, 7, 9, 10} : IsDigit(i[p])
           /\ i[5] = "-" /\ i[8] = "-"
           /\ two(6) \in 1..12 /\ two(9) \in 1..31
        THEN Ok(<<SubSeq(i, 11, Len(i)), <<two(1) * 100 + two(3), two(6), two(9)>> >>)
        ELSE Err(<<"NomError">>)

\* iso8601::parsers::parse_datetime on the form YYYY-MM-DDThh:mm:ss
parse_datetime(i) ==
    LET IsDigit(c) == c \in {"0", "1", "2", "3", "4", "5", "6", "7", "8", "9"}
        Value(c) ==
            CHOOSE v \in 0..9 :
                <<"0", "1", "2", "3", "4", "5", "6", "7", "8", "9">>[v + 1] = c
        two(t, p) == Value(t[p]) * 10 + Value(t[p + 1])
        time(ymd, t) ==
            IF /\ Len(t) >= 9
               /\ t[1] = "T" /\ t[4] = ":" /\ t[7] = ":"
               /\ \A p \in {2, 3, 5, 6, 8, 9} : IsDigit(t[p])
               /\ two(t, 2) <= 24 /\ two(t, 5) <= 59 /\ two(t, 8) <= 60
            THEN Ok(<<SubSeq(t, 10, Len(t)), ymd \o <<two(t, 2), two(t, 5), two(t, 8)>> >>)
            ELSE Err(<<"NomError">>)
        dated(d) == IF IsErr(d) THEN d ELSE time(d[2][2], d[2][1])
    IN  dated(parse_date(i))

\* datetime before date, because the datetime is the longer one
exact_date_parser(i) ==
    LET iso_date(d) ==
            IF IsOk(d) THEN Ok(<<d[2][1], <<"Iso8601Date">> \o d[2][2]>>) ELSE d
        iso_datetime(dt) ==
            IF IsOk(dt) THEN Ok(<<dt[2][1], <<"Iso8601DateTime">> \o dt[2][2]>>)
            ELSE iso_date(parse_date(i))
        keyword(k) ==
            IF IsOk(k) THEN Ok(<<k[2][1], <<k[2][2]>> >>)
            ELSE iso_datetime(parse_datetime(i))
    IN  keyword(alt_tags(<< <<Word.today, "Today">>, <<Word.yesterday, "Yesterday">>,
                            <<Word.tomorrow, "Tomorrow">> >>, i))

\* exact_date_parser, opt(complete(multispace1 operator multispace1
\* amount_expr)); a failing option consumes nothing
date(i) ==
    LET alone(exact) == Ok(<<exact[2][1], <<"Date", exact[2][2], None>> >>)
        with_amount(exact, op, a) ==
            IF IsOk(a)
            THEN Ok(<<a[2][1], <<"Date", exact[2][2], <<op[2][2], a[2][2]>> >> >>)
            ELSE alone(exact)
        after_op(exact, op, sp) ==
            IF sp[2][2] > 0 THEN with_amount(exact, op, amount_expr(sp[2][1]))
            ELSE alone(exact)
        with_op(exact, op) ==
            IF IsOk(op) THEN after_op(exact, op, multispace0(op[2][1]))
            ELSE alone(exact)
        after_exact(exact, sp) ==
            IF sp[2][2] > 0 THEN with_op(exact, operator_parser(sp[2][1]))
            ELSE alone(exact)
        first(exact) ==
            IF IsErr(exact) THEN exact
            ELSE after_exact(exact, multispace0(exact[2][1]))
    IN  first(exact_date_parser(i))

\* parser::TimeType::Date(d) is the Date d, TimeType::AmountExpr(a) the
\* AmountExpr a
timetype(i) ==
    LET or_else(d) == IF IsOk(d) THEN d ELSE amount_expr(i)
    IN  or_else(date(i))

\* the keywords, then tag("every"), integer, unit_parser
iter_spec(i) ==
    LET with_unit(number, unit) ==
            IF IsOk(unit) THEN Ok(<<unit[2][1], <<"Every", number[2][2], unit[2][2]>> >>)
            ELSE unit
        with_number(number) ==
            IF IsOk(number) THEN with_unit(number, unit_parser(number[2][1]))
            ELSE number
        with_every(t) == IF IsOk(t) THEN with_number(integer(t[2][1])) ELSE t
        keyword(alias) ==
            IF IsOk(alias) THEN Ok(<<alias[2][1], <<alias[2][2]>> >>)
            ELSE with_every(tag(Word.every, i))
    IN  keyword(unit_alias(i))

\* tag("until") multispace1 exact_date_parser, or integer multispace1
\* tag("times")
until_spec(i) ==
    LET with_times(num, t) ==
            IF IsOk(t) THEN Ok(<<t[2][1], <<"Times", num[2][2]>> >>) ELSE t
        after_number(num, sp) ==
            IF sp[2][2] > 0 THEN with_times(num, tag(Word.times, sp[2][1]))
            ELSE Err(<<"NomError">>)
        with_number(num) ==
            IF IsOk(num) THEN after_number(num, multispace0(num[2][1])) ELSE num
        with_exact(exact) ==
            IF IsOk(exact) THEN Ok(<<exact[2][1], <<"Exact", exact[2][2]>> >>)
            ELSE with_number(integer(i))
        after_until(sp) ==
            IF sp[2][2] > 0 THEN with_exact(exact_date_parser(sp[2][1]))
            ELSE with_number(integer(i))
        with_until(t) ==
            IF IsOk(t) THEN after_until(multispace0(t[2][1]))
            ELSE with_number(integer(i))
    IN  with_until(tag(Word.until, i))

\* multispace0 date multispace0 iter_spec multispace0 opt(complete(until_spec))
iterator(i) ==
    LET with_until(d, spec, rest, u) ==
            IF IsOk(u)
            THEN Ok(<<u[2][1], <<"Iterator", d[2][2], spec[2][2], u[2][2]>> >>)
            ELSE Ok(<<rest, <<"Iterator", d[2][2], spec[2][2], None>> >>)
        after_spec(d, spec, rest) == with_until(d, spec, rest, until_spec(rest))
        with_spec(d, spec) ==
            IF IsErr(spec) THEN spec
            ELSE after_spec(d, spec, multispace0(spec[2][1])[2][1])
        with_date(d) ==
            IF IsErr(d) THEN d
            ELSE with_spec(d, iter_spec(multispace0(d[2][1])[2][1]))
    IN  with_date(date(multispace0(i)[2][1]))

\* alt_complete!(iterator => Ok(Parsed::Iterator(into_user_iterator())),
\*               timetype => into_timetype().map(Parsed::TimeType))
do_parse(i) ==
    LET lowered(tt, r) ==
            Ok(<<tt[2][1], IF IsOk(r) THEN Ok(<<"TimeType", r[2]>>) ELSE r>>)
        as_timetype(tt) ==
            IF IsOk(tt) THEN lowered(tt, TimeType_into_timetype(tt[2][2])) ELSE tt
        as_iterator(it) ==
            IF IsOk(it)
            THEN Ok(<<it[2][1], Ok(<<"Iterator", into_user_iterator(it[2][2])>>)>>)
            ELSE as_timetype(timetype(i))
    IN  as_iterator(iterator(i))

\* parse: Done(_, Ok(o)) => Ok(o), Done(_, Err(e)) => Err(e),
\* Error(e) => Err(NomError)
parse(s) ==
    LET done(r) == IF IsOk(r) THEN r[2][2] ELSE r
    IN  done(do_parse(s))

\* ------------------------------------------------------------------------
\* The parsers on texts: a caller hands a text to parse, to unit_parser or
\* to iter_spec.  `out` keeps what do_parse returned, with the input it
\* left unconsumed.
\* ------------------------------------------------------------------------
ParseTexts ==
    LET sp == <<" ">>
        d1 == <<"2", "0", "1", "7", "-", "0", "1", "-", "0", "1">>
        d5 == <<"2", "0", "1", "7", "-", "0", "1", "-", "0", "5">>
        bad == <<"2", "0", "1", "7", "-", "0", "2", "-", "3", "0">>
        t5 == <<"T", "0", "5", ":", "0", "0", ":", "0", "0">>
        foo == <<"f", "o", "o">>
        dates == {d1, d1 \o t5, bad, d1 \o sp \o Word.plus \o sp \o <<"1">> \o Word.day}
        specs == {Word.hourly, Word.secondly, Word.every \o sp \o <<"2">> \o Word.mins,
                  Word.every \o <<"1">> \o sp \o Word.week}
        untils == {<<>>, sp \o Word.until \o sp \o d5,
                   sp \o Word.until \o sp \o d1 \o t5,
                   sp \o <<"5">> \o sp \o Word.times}
        amounts == {<<"5">> \o Word.min,
                    <<"5">> \o sp \o Word.min \o sp \o Word.plus \o sp \o <<"1">> \o Word.hr,
                    <<"1">> \o Word.hour \o Word.minus \o <<"3", "0">> \o Word.s,
                    Word.secondly, <<"2">> \o Word.days}
        trailing == {<<>>, sp \o foo, <<"x">>, sp}
        suffix == {<<>>, <<"l", "y">>, sp \o <<"x">>}
        units == {Word.seconds, Word.second, Word.secs, Word.sec, Word.s,
                  Word.minutes, Word.minute, Word.mins, Word.min,
                  Word.hours, Word.hour, Word.hrs, Word.hr,
                  Word.days, Word.day, Word.d, Word.weeks, Word.week, Word.w,
                  Word.months, Word.month, Word.years, Word.year, Word.yrs}
        keywords == {Word.secondly, Word.minutely, Word.hourly, Word.daily,
                     Word.weekly, Word.monthly, Word.yearly}
    IN  {<<"parse", d \o sp \o s \o u \o t>> :
            d \in dates, s \in specs, u \in untils, t \in trailing}
        \cup {<<"parse", d \o t>> : d \in dates, t \in trailing}
        \cup {<<"parse", a \o t>> : a \in amounts, t \in trailing}
        \cup {<<"parse", t>> : t \in {<<>>, foo, Word.hourly \o sp \o d1}}
        \cup {<<"unit_parser", w \o x>> : w \in units \cup {foo}, x \in suffix}
        \cup {<<"iter_spec", w \o x>> :
                w \in keywords \cup {Word.seconds, Word.every \o sp \o <<"5">> \o Word.min,
                                     Word.every \o <<"2">> \o Word.s, Word.every},
                x \in suffix}

InitParse ==
    /\ input \in ParseTexts
    /\ expr = None
    /\ Fresh

\* parser::parse(s)
Parse ==
    /\ input[1] = "parse"
    /\ result = None
    /\ out' = do_parse(input[2])
    /\ result' = parse(input[2])
    /\ UNCHANGED <<input, built, src, base, increment, items, pos, layers,
                   seen, log, pulls, inner_pulls, prev, expr, tick>>

\* unit_parser(s)
UnitParser ==
    /\ input[1] = "unit_parser"
    /\ result = None
    /\ result' = unit_parser(input[2])
    /\ UNCHANGED <<input, built, src, base, increment, items, pos, layers, out,
                   seen, log, pulls, inner_pulls, prev, expr, tick>>

\* iter_spec(s)
IterSpec ==
    /\ input[1] = "iter_spec"
    /\ result = None
    /\ result' = iter_spec(input[2])
    /\ UNCHANGED <<input, built, src, base, increment, items, pos, layers, out,
                   seen, log, pulls, inner_pulls, prev, expr, tick>>

NextParse ==
    \/ Parse
    \/ UnitParser
    \/ IterSpec

SpecParse == InitParse /\ [][NextParse]_vars

\* ------------------------------------------------------------------------
\* The claims
\* ------------------------------------------------------------------------
top == layers[Len(layers)]

Last(q) == q[Len(q)]

\* m1 is earlier than m2, field by field
Earlier(m1, m2) ==
    \/ m1[1] < m2[1]
    \/ m1[1] = m2[1] /\ m1[2] < m2[2]
    \/ m1[1] = m2[1] /\ m1[2] = m2[2] /\ m1[3] < m2[3]
    \/ m1[1] = m2[1] /\ m1[2] = m2[2] /\ m1[3] = m2[3] /\ m1[4] < m2[4]
    \/ m1[1] = m2[1] /\ m1[2] = m2[2] /\ m1[3] = m2[3] /\ m1[4] = m2[4] /\ m1[5] < m2[5]
    \/ m1[1] = m2[1] /\ m1[2] = m2[2] /\ m1[3] = m2[3] /\ m1[4] = m2[4] /\ m1[5] = m2[5]
       /\ m1[6] < m2[6]

BareIter == input[1] = "api" /\ IsOk(built) /\ layers = <<>>

AllOk(q) == \A i \in 1..Len(q) : IsOk(q[i])

\* C1, as amended: for an Iter built by Iter::build(b, inc) with inc an
\* Amount, every call of next() yields calculate(stored base + inc).  When
\* that is Ok it is a Moment, it is the item yielded and it is stored as the
\* new base; when it is an error, the error is the item yielded.  As long as
\* no earlier call failed, the stored base before the k-th call is b for
\* k = 1 and the (k-1)-th yielded moment otherwise; so the first item of a
\* positive increment is b + inc and not b (one minute steps from
\* 2000-01-01T00:00:00 yield 00:01:00, 00:02:00, ...).
C1_IterYieldsCalculatedSum ==
    (BareIter /\ pulls >= 1) =>
        /\ out = calculate(Addition(prev, increment))
        /\ IsOk(out) => is_moment(out[2]) /\ base = out[2]
        /\ AllOk(SubSeq(log, 1, pulls - 1)) =>
               prev = IF pulls = 1 THEN Moment(input[2]) ELSE log[pulls - 1][2]
        /\ (pulls = 1 /\ IsOk(out) /\ increment[2] > 0) =>
               Earlier(input[2], out[2][2])
        /\ (input[2] = <<2000, 1, 1, 0, 0, 0>> /\ increment = Minutes(1)) =>
               out = Ok(Moment(<<2000, 1, 1, 0, pulls, 0>>))

\* C1 witness: the second call on a minutely Iter from 2000-01-01T00:00:00
\* has yielded 00:02:00 and stored it
C1_SecondMinute ==
    /\ BareIter
    /\ pulls = 2
    /\ increment = Minutes(1)
    /\ out = Ok(Moment(<<2000, 1, 1, 0, 2, 0>>))
    /\ base = Moment(<<2000, 1, 1, 0, 2, 0>>)

\* C1 as stated: every call of next() yields Ok(Moment), equal to
\* calculate(previous base + inc), and stores it as the new base
C1_AlwaysYieldsMoment ==
    (BareIter /\ pulls >= 1) =>
        /\ IsOk(out) /\ is_moment(out[2])
        /\ out = calculate(Addition(prev, increment))
        /\ base = out[2]
        /\ prev = IF pulls = 1 THEN Moment(input[2]) ELSE log[pulls - 1][2]

\* the base date of a parsed iterator, as into_user_iterator computes it
ParsedBase == into_ndt(Date_into_timetype(input[2]))[2]

\* k times the amount a
Scaled(a, k) == <<a[1], a[2] * k>>

\* C2: the iterator obtained from into_user_iterator yields the base date
\* itself as its first item and base + k * increment as its (k+1)-th item
C2_ParsedYieldsBaseFirst ==
    (input[1] = "Iterator" /\ IsOk(built) /\ pulls >= 1 /\ IsOk(out)) =>
        out = calculate(Addition(Moment(ParsedBase), Scaled(increment, pulls - 1)))

\* C3: every item UntilIter yields as Ok is a Moment strictly earlier than
\* its bound, and an inner Ok item that evaluates to a moment not strictly
\* earlier than the bound (equal or later) makes it return end-of-sequence;
\* one that evaluates to an earlier moment is yielded
C3_UntilIsExclusive ==
    (IsOk(built) /\ pulls >= 1 /\ TopKind = "Until") =>
        /\ IsOk(out) => is_moment(out[2]) /\ Earlier(out[2][2], top[2])
        /\ (IsOk(seen[1]) /\ IsOk(calculate(seen[1][2]))
              /\ is_moment(calculate(seen[1][2])[2])) =>
               IF Earlier(calculate(seen[1][2])[2][2], top[2])
               THEN out = calculate(seen[1][2])
               ELSE out = None

\* C3 witness: an UntilIter that has yielded an item returns end-of-sequence
\* on an inner moment equal to its bound
C3_EndsAtBound ==
    /\ IsOk(built) /\ TopKind = "Until"
    /\ pulls >= 2 /\ IsOk(log[1])
    /\ seen = <<Ok(Moment(top[2]))>>
    /\ out = None

NonNeg(n) == IF n > 0 THEN n ELSE 0

Yielded(q) == Len(SelectSeq(q, LAMBDA x : x # None))

\* C4: a TimesIter created with count n pulls its inner sequence at most
\* max(n, 0) times in total and yields at most max(n, 0) items, n <= 0
\* included
C4_TimesIsBounded ==
    (IsOk(built) /\ TopKind = "Times") =>
        /\ inner_pulls <= NonNeg(top[2])
        /\ Yielded(log) <= NonNeg(top[2])

\* C5: repeatedly pulling UntilIter over Iter (TimesIter over Iter) returns
\* end-of-sequence after finitely many pulls, for every base, Amount
\* increment and bound
C5_BoundedRecurrenceEnds == <>(out = None)

\* the inner sequence of a single combinator over a Vec, as far as consumed
Consumed == SubSeq(items, 1, pos)

\* C6: FilterIter yields exactly the inner Ok items for which the matcher
\* returns Ok(true), WithoutIter exactly those for which it returns
\* Ok(false), in the order of the inner sequence, each on the pull that
\* took it from the inner sequence
C6_FilterYieldsTheMatching ==
    (IsOk(built) /\ src = "Vec" /\ Len(layers) = 1 /\ TopKind \in {"Filter", "Without"}) =>
        /\ SelectSeq(log, IsOk)
             = SelectSeq(Consumed,
                         LAMBDA x : IsOk(x) /\ matches(top[2], x[2]) = Ok(TopKind = "Filter"))
        /\ (pulls >= 1 /\ IsOk(out)) => out = items[pos] /\ out = Last(seen)

\* C6 witness: a FilterIter has yielded a second item after discarding one
C6_SkipsOne ==
    /\ IsOk(built) /\ src = "Vec" /\ Len(layers) = 1 /\ TopKind = "Filter"
    /\ pulls = 2 /\ IsOk(log[1]) /\ IsOk(out)
    /\ Len(seen) = 2

Combinators == {"Filter", "Without", "Until", "Times"}

NotAMoment(tt) == Err(<<"ArgumentErrorNotAMoment", name(tt)>>)

ReducesToAmount(tt) == IsOk(calculate(tt)) /\ is_a_amount(calculate(tt)[2])

\* C9: Iter::build(base, inc) returns Ok exactly when inc reduces under
\* calculate to an Amount (a composite such as Minutes(1) + Seconds(1)
\* included) and ArgumentErrorNotAnAmount otherwise
C9_BuildAcceptsWhatReduces ==
    (input[1] = "api" /\ built # None) =>
        /\ IsOk(built) <=> ReducesToAmount(input[3])
        /\ ~ReducesToAmount(input[3]) => built = Err(<<"ArgumentErrorNotAnAmount", input[3]>>)

Ratios == <<60, 60, 24, 30, 12>>

UnitOrder == <<"Seconds", "Minutes", "Hours", "Days", "Months", "Years">>

Rank(u) == CHOOSE i \in 1..6 : UnitOrder[i] = u

RECURSIVE Per(_, _)
\* how many units of rank f make one unit of rank u (f <= u)
Per(u, f) == IF u = f THEN 1 ELSE Ratios[u - 1] * Per(u - 1, f)

Finer(a, b) == IF Rank(a[1]) <= Rank(b[1]) THEN a[1] ELSE b[1]

In(a, f) == a[2] * Per(Rank(a[1]), Rank(f))

\* C10: calculate(Amount(u1, x) + Amount(u2, y)) and calculate(Amount(u1, x)
\* - Amount(u2, y)) are in the finer of u1 and u2, with value x' + y' resp.
\* x' - y' for the counts converted with the ratios 60/60/24/30/12, whichever
\* operand is on the left; and calculate(a + b) = calculate(b + a)
C10_AmountArithmetic ==
    (result # None /\ expr[1] \in {"Addition", "Subtraction"}
       /\ is_a_amount(expr[2]) /\ is_a_amount(expr[3])) =>
        LET f == Finer(expr[2], expr[3])
        IN  /\ result = Ok(<<f, IF expr[1] = "Addition"
                                THEN In(expr[2], f) + In(expr[3], f)
                                ELSE In(expr[2], f) - In(expr[3], f)>>)
            /\ expr[1] = "Addition" => result = calculate(Addition(expr[3], expr[2]))

\* C10 witness: Hours(2) - Minutes(1) has been calculated to Minutes(119)
C10_TwoHoursLessAMinute ==
    /\ expr = Subtraction(Hours(2), Minutes(1))
    /\ result = Ok(Minutes(119))

\* the links of a parsed chain: <<op, amount>> for each amount, in order
RECURSIVE Links(_, _)
Links(op, e) ==
    <<<<op, unit_to_amount(e[2][2], e[2][3])>>>>
    \o (IF e[3] = None THEN <<>> ELSE Links(e[3][1], e[3][2]))

\* the chain taken link by link from the left: each step is one calculate
\* of (what the steps so far gave) op (the next amount)
RECURSIVE Steps(_, _)
Steps(acc, links) ==
    IF links = <<>> \/ IsErr(acc) THEN acc
    ELSE Steps(calculate(<<IF Head(links)[1] = "Plus" THEN "Addition" ELSE "Subtraction",
                           acc[2], Head(links)[2]>>),
               Tail(links))

LeftAssociated(t) ==
    IF t[1] = "Date"
    THEN Steps(ExactDate_into_timetype(t[2]), Links(t[3][1], t[3][2]))
    ELSE Steps(Ok(Links("Plus", t)[1][2]), Tail(Links("Plus", t)))

\* C11: calculate of the tree lowered from 'a1 op1 a2 op2 a3' or from
\* 'date op0 a1 op1 a2' equals the chain evaluated from the left,
\* ((a1 op1 a2) op2 a3), so 'x - y + z' is x - y + z
C11_ChainsAreLeftAssociative ==
    (input # None /\ expr # None /\ result # None /\ log = <<>>) =>
        result = LeftAssociated(input)

\* tt reduces to a Moment / to an Amount
ReducesToMoment(tt) == IsOk(calculate(tt)) /\ is_moment(calculate(tt)[2])

\* C12: calculate of an Addition (Subtraction) whose right operand is a
\* Moment returns a CannotAdd (CannotSub) error whether the left operand is
\* an Amount or a Moment; whenever an Addition or Subtraction evaluates to a
\* Moment, its left operand reduces to a Moment and its right operand to an
\* Amount (the operands are not commuted to make it succeed)
C12_RightMomentIsAnError ==
    (input = None /\ result # None /\ log = <<>>
     /\ name(expr) \in {"Addition", "Subtraction"}) =>
        /\ (is_moment(expr[3]) /\ (is_a_amount(expr[2]) \/ is_moment(expr[2]))) =>
               /\ IsErr(result)
               /\ result[2][1] = IF name(expr) = "Addition" THEN "CannotAdd" ELSE "CannotSub"
        /\ (IsOk(result) /\ is_moment(result[2])) =>
               ReducesToMoment(expr[2]) /\ ReducesToAmount(expr[3])

\* C12 witness: Seconds(2) + Moment(2000-01-01T00:00:00) was evaluated and
\* gave CannotAdd
C12_SecondsPlusMoment ==
    /\ expr = Addition(Seconds(2), Moment(<<2000, 1, 1, 0, 0, 0>>))
    /\ IsErr(result)
    /\ result[2][1] = "CannotAdd"

\* the calendar, stated on its own: the length of a month and the day after
LengthOfMonth(y, mo) ==
    IF mo = 2
    THEN (IF (y % 4 = 0 /\ y % 100 # 0) \/ y % 400 = 0 THEN 29 ELSE 28)
    ELSE <<31, 0, 31, 30, 31, 30, 31, 31, 30, 31, 30, 31>>[mo]

\* a date of the calendar
ValidDate(m) ==
    /\ m[2] \in 1..12
    /\ m[3] \in 1..LengthOfMonth(m[1], m[2])
    /\ m[4] \in 0..23 /\ m[5] \in 0..59 /\ m[6] \in 0..59

\* the number of the day of a date, counted through the calendar from
\* 0000-03-01 (years from 1 on)
DayNumber(m) ==
    LET y   == IF m[2] <= 2 THEN m[1] - 1 ELSE m[1]
        mp  == IF m[2] > 2 THEN m[2] - 3 ELSE m[2] + 9
        doy == ((153 * mp + 2) \div 5) + m[3] - 1
    IN  365 * y + (y \div 4) - (y \div 100) + (y \div 400) + doy

\* r is the moment d calendar days after m, at the same time of day
DaysApart(m, r, d) ==
    /\ ValidDate(r)
    /\ DayNumber(r) = DayNumber(m) + d
    /\ <<r[4], r[5], r[6]>> = <<m[4], m[5], m[6]>>

\* a moment plus (minus) an amount of the unit u with a count >= 0 was evaluated
MomentPlus(u) ==
    /\ input = None /\ result # None /\ log = <<>>
    /\ name(expr) = "Addition" /\ is_moment(expr[2])
    /\ name(expr[3]) = u /\ expr[3][2] >= 0

MomentMinus(u) ==
    /\ input = None /\ result # None /\ log = <<>>
    /\ name(expr) = "Subtraction" /\ is_moment(expr[2])
    /\ name(expr[3]) = u /\ expr[3][2] >= 0

\* C13: calculate(Moment(m) + Days(d)) with d >= 0 is the moment exactly d
\* calendar days after m, with the real length of each month crossed, also
\* past December into the following year
C13_DaysAreCalendarDays ==
    MomentPlus("Days") =>
        /\ IsOk(result) /\ is_moment(result[2])
        /\ DaysApart(expr[2][2], result[2][2], expr[3][2])

\* C14: for a valid moment m and an amount a with a count >= 0,
\* calculate(Moment(m) + a) returns Ok(Moment) of a valid calendar tuple
\* (1 <= month <= 12, 1 <= day <= days in that month, hour <= 23,
\* minute <= 59, second <= 59), and 2000-01-01 + Months(14) is 2001-03-01
C14_SumIsAValidMoment ==
    (\E u \in AmountNames : MomentPlus(u)) =>
        /\ IsOk(result) /\ is_moment(result[2])
        /\ ValidDate(result[2][2])
        /\ expr = Addition(Moment(<<2000, 1, 1, 0, 0, 0>>), Months(14)) =>
               result = Ok(Moment(<<2001, 3, 1, 0, 0, 0>>))

\* C15: if r = calculate(Moment(m) + Days(d)) with d >= 0, then
\* calculate(r - Days(d)) returns Ok(Moment(m))
C15_DaysRoundTrip ==
    (log # <<>> /\ name(expr) = "Subtraction" /\ name(prev) = "Addition"
     /\ name(prev[3]) = "Days") =>
        result = Ok(prev[2])

\* C16: calculate(Moment(m) - Days(1)) returns Ok with the previous calendar
\* day at the same time of day, borrowing the real length of the preceding
\* month when the day underflows
C16_YesterdayIsThePreviousDay ==
    (MomentMinus("Days") /\ expr[3][2] = 1) =>
        /\ IsOk(result) /\ is_moment(result[2])
        /\ DaysApart(result[2][2], expr[2][2], 1)

\* the moment m snapped to the end of its year, month, day, hour or minute
Snapped(x, m) ==
    CASE x = "EndOfYear" -> <<m[1], 12, 31, 0, 0, 0>>
      [] x = "EndOfMonth" -> <<m[1], m[2], LengthOfMonth(m[1], m[2]), 0, 0, 0>>
      [] x = "EndOfDay" -> <<m[1], m[2], m[3], 23, 59, 59>>
      [] x = "EndOfHour" -> <<m[1], m[2], m[3], m[4], 59, 59>>
      [] x = "EndOfMinute" -> <<m[1], m[2], m[3], m[4], m[5], 59>>

\* an end-of operator on an operand was evaluated
EndOfEvaluated ==
    /\ input = None /\ result # None /\ log = <<>>
    /\ name(expr) \in EndOfNames

\* C17: for an operand that is or reduces to a Moment m, calculate gives
\* EndOfYear = Dec 31 00:00:00 of m's year, EndOfMonth = the last real day
\* of m's month at 00:00:00, EndOfDay = m's date at 23:59:59, EndOfHour =
\* m's date and hour at :59:59, EndOfMinute = m's date, hour and minute at :59
C17_EndOfSnaps ==
    (EndOfEvaluated /\ ReducesToMoment(expr[2])) =>
        result = Ok(Moment(Snapped(name(expr), calculate(expr[2])[2][2])))

\* C17 witness: EndOfMonth of a moment in February 2000 was evaluated to
\* 2000-02-29T00:00:00
C17_EndOfLeapFebruary ==
    /\ expr = EndOfMonth(Moment(<<2000, 2, 29, 12, 30, 30>>))
    /\ result = Ok(Moment(<<2000, 2, 29, 0, 0, 0>>))

\* an end-of operator on an end-of operator on a Moment was evaluated
NestedEndOfEvaluated ==
    /\ EndOfEvaluated
    /\ name(expr[2]) \in EndOfNames
    /\ is_moment(expr[2][2])

\* C18, as amended: for a Moment m and end-of operators X, Y,
\* calculate(X(Y(m))) evaluates Y(m) first and applies X to its result: it is
\* the moment m snapped by Y and then by X.  It equals calculate(Y(m)) when
\* X = Y (the operator counts once), and differs from it when the second
\* snap moves the moment (EndOfYear(EndOfDay(2000-01-01T00:00:00)) is
\* 2000-12-31T00:00:00).
C18_OuterEndOfIsApplied ==
    NestedEndOfEvaluated =>
        /\ result = Ok(Moment(Snapped(name(expr), Snapped(name(expr[2]), expr[2][2][2]))))
        /\ name(expr) = name(expr[2]) => result = calculate(expr[2])

\* C18 witness: EndOfYear(EndOfDay(2000-01-01T00:00:00)) was evaluated to
\* the end of the year
C18_EndOfYearOfEndOfDay ==
    /\ expr = EndOfYear(EndOfDay(Moment(<<2000, 1, 1, 0, 0, 0>>)))
    /\ result = Ok(Moment(<<2000, 12, 31, 0, 0, 0>>))

\* C18 as stated: calculate(X(Y(m))) equals calculate(Y(m)), the outer
\* operator is not applied to the result
C18_NestedEndOfCollapses ==
    NestedEndOfEvaluated => result = calculate(expr[2])

\* the error that names the end-of operation x
ErrorNaming(x) ==
    CASE x = "EndOfYear" -> "CannotCalculateEndOfYearOn"
      [] x = "EndOfMonth" -> "CannotCalculateEndOfMonthOn"
      [] x = "EndOfDay" -> "CannotCalculateEndOfDayOn"
      [] x = "EndOfHour" -> "CannotCalculateEndOfHourOn"
      [] x = "EndOfMinute" -> "CannotCalculateEndOfMinuteOn"

\* C19: calculate(EndOfX(e)) where e reduces to an Amount returns an error
\* that names the operation X and carries the reduced value
C19_EndOfAmountNamesTheOperation ==
    (EndOfEvaluated /\ ReducesToAmount(expr[2])) =>
        result = Err(<<ErrorNaming(name(expr)), calculate(expr[2])[2]>>)

\* C20: whenever calculate(e) returns Ok(r), r is a single Amount or a
\* single Moment; calculate(r) = Ok(r), so a second calculate returns what
\* the first returned; and calculate(Amount(u, a) + Amount(u, 0)) is
\* Amount(u, a)
C20_CalculateIsCanonical ==
    (expr # None /\ IsOk(result)) =>
        /\ is_a_amount(result[2]) \/ is_moment(result[2])
        /\ (log # <<>> /\ expr = log[1][2]) => result = log[1]
        /\ (log = <<>> /\ name(expr) = "Addition" /\ is_a_amount(expr[2])
            /\ expr[3] = <<name(expr[2]), 0>>) => result = Ok(expr[2])

\* C20 witness: Minutes(1) + Seconds(1) gave Seconds(61), and calculate on
\* Seconds(61) gave Seconds(61) again
C20_SecondCalculate ==
    /\ prev = Addition(Minutes(1), Seconds(1))
    /\ log = <<Ok(Seconds(61))>>
    /\ expr = Seconds(61)
    /\ result = Ok(Seconds(61))

\* the count of the amount a does not fit 32 bits
Wide(a) == Len(a) = 3 /\ a[3] # 0

\* C21: when Moment +/- Amount gives a calendar tuple that is not
\* representable, calculate returns an OutOfBounds error (an error of
\* Moment +/- Amount is an OutOfBounds error), and it never returns Ok with
\* a moment cut off from the arithmetic result: a count of years beyond 32
\* bits, which takes the year out of every integer range of a date, gives
\* an error
C21_UnrepresentableIsOutOfBounds ==
    (input = None /\ result # None /\ log = <<>>
     /\ name(expr) \in {"Addition", "Subtraction"}
     /\ is_moment(expr[2]) /\ is_a_amount(expr[3])) =>
        /\ IsErr(result) => result[2][1] = "OutOfBounds"
        /\ Wide(expr[3]) => IsErr(result)

\* the input that do_parse left unconsumed
Unconsumed == IF IsOk(out) THEN out[2][1] ELSE <<>>

\* C22: parse(s) returns a parser error whenever the top-level parser leaves
\* part of s unconsumed; it never returns Ok for a text with trailing
\* unconsumed input.
C22_TrailingInputIsAParserError ==
    (input[1] = "parse" /\ result # None /\ Unconsumed # <<>>) =>
        /\ IsErr(result)
        /\ result[2][1] \in {"NomError", "UnknownParserError"}

\* the aliases the grammar lists for each unit
AliasesOf ==
    [Second |-> {Word.seconds, Word.second, Word.secs, Word.sec, Word.s},
     Minute |-> {Word.minutes, Word.minute, Word.mins, Word.min},
     Hour |-> {Word.hours, Word.hour, Word.hrs, Word.hr},
     Day |-> {Word.days, Word.day, Word.d},
     Week |-> {Word.weeks, Word.week, Word.w},
     Month |-> {Word.months, Word.month},
     Year |-> {Word.years, Word.year, Word.yrs}]

\* C23: unit_parser applied to a listed unit alias consumes the whole alias
\* and returns its unit with no remaining input, and iter_spec applied to
\* 'secondly' returns the Secondly keyword with no remaining input.
C23_AliasIsConsumedWhole ==
    /\ (input[1] = "unit_parser" /\ result # None) =>
           \A u \in UnitSet : input[2] \in AliasesOf[u] => result = Ok(<< <<>>, u>>)
    /\ (input[1] = "iter_spec" /\ result # None /\ input[2] = Word.secondly) =>
           result = Ok(<< <<>>, <<"Secondly">> >>)

\* C23 witness: unit_parser has taken 'seconds' whole
C23_SecondsWhole ==
    /\ input = <<"unit_parser", Word.seconds>>
    /\ result = Ok(<< <<>>, "Second">>)

\* a Vec of Ok moments under every(M).without(M), pulled at least once
EveryWithoutSame ==
    /\ IsOk(built) /\ src = "Vec" /\ pulls >= 1
    /\ Len(layers) = 2
    /\ layers[1][1] = "Filter" /\ layers[2][1] = "Without"
    /\ layers[1][2] = layers[2][2]
    /\ \A i \in 1..Len(items) : IsOk(items[i]) /\ is_moment(items[i][2])

\* C24: for an inner sequence of Ok moments and a matcher M,
\* inner.every(M).without(M) yields no item: every pull consumes the inner
\* sequence to its end and returns end-of-sequence.
C24_EveryWithoutIsEmpty ==
    EveryWithoutSame =>
        /\ out = None
        /\ pos = Len(items)
        /\ \A i \in 1..Len(log) : log[i] = None

\* C24 witness: the first pull went through a Monday, a Tuesday and a
\* Monday and returned end-of-sequence
C24_ThreeDaysNoItem ==
    /\ EveryWithoutSame
    /\ items = <<Ok(Moment(Monday3)), Ok(Moment(Tuesday1)), Ok(Moment(Monday3))>>
    /\ layers[1][2] = <<"Day", "Monday">>
    /\ pulls = 1 /\ pos = 3 /\ out = None

\* the number of seconds from the moment r to the moment m
SecondsBetween(r, m) ==
    (DayNumber(m) - DayNumber(r)) * 86400
    + (m[4] - r[4]) * 3600 + (m[5] - r[5]) * 60 + (m[6] - r[6])

\* C25: for a valid moment m and a count n >= 0, calculate(Moment(m) -
\* Seconds(n)) returns Ok with the moment exactly n seconds before m, and
\* likewise for Minutes(n) and Hours(n), also when n is a multiple of or
\* larger than 60 (24).
C25_SecondsBorrowExactly ==
    \A u \in {"Seconds", "Minutes", "Hours"} :
        MomentMinus(u) =>
            /\ IsOk(result) /\ is_moment(result[2])
            /\ ValidDate(result[2][2])
            /\ SecondsBetween(result[2][2], expr[2][2]) =
                   expr[3][2] * (CASE u = "Seconds" -> 1
                                   [] u = "Minutes" -> 60
                                   [] u = "Hours" -> 3600)

\* the i-th call was a next()
IsNext(i) == log[i][1] \in {"Ok", "Err"}

\* C26: rollback() undoes the latest next(): if next() yields Ok(v), the
\* rollback() that follows returns Ok, the stored base is back at the moment
\* it held before that next(), and the next() after it yields Ok(v) again.
C26_RollbackUndoesNext ==
    /\ \A i \in 1..(Len(log) - 1) :
           (IsNext(i) /\ IsOk(log[i]) /\ log[i + 1][1] = "rollback") =>
               /\ IsOk(log[i + 1][2])
               /\ (i + 2 <= Len(log) /\ IsNext(i + 2)) => log[i + 2] = log[i]
    /\ (Len(log) = 2 /\ IsOk(log[1]) /\ log[2][1] = "rollback") =>
           base = Moment(input[2])

\* C27: after any sequence of next(), skip() and rollback() calls on an
\* Iter, also calls that returned an error, the stored base is a single
\* reduced Moment: the tree does not grow from one call to the next.
C27_BaseStaysAMoment == src = "Iter" => is_moment(base)

\* C28: reducing the left composite first does not swap the operands:
\* calculate(Addition(Subtraction(x, y), z)) equals calculate(Addition(r, z))
\* where Ok(r) = calculate(Subtraction(x, y)), the same value or an error
\* in both; so for a Moment m and Amounts a, b, calculate((m - a) + b) is
\* the Moment m - a + b and not an error.
C28_LeftSubtractionKeepsOrder ==
    (input = None /\ result # None /\ log = <<>>
     /\ name(expr) = "Addition" /\ name(expr[2]) = "Subtraction") =>
        \A r \in {calculate(expr[2])} :
            IsOk(r) =>
                \A e \in {calculate(Addition(r[2], expr[3]))} :
                    IF IsOk(e) THEN result = e ELSE IsErr(result)

\* a moment plus or minus an amount with a negative count was evaluated
NegativeCount ==
    /\ input = None /\ result # None /\ log = <<>>
    /\ name(expr) \in {"Addition", "Subtraction"}
    /\ is_moment(expr[2]) /\ is_a_amount(expr[3])
    /\ Len(expr[3]) = 2 /\ expr[3][2] < 0

\* the same moment with the opposite operator and the count negated
Opposite(e) ==
    <<IF name(e) = "Addition" THEN "Subtraction" ELSE "Addition", e[2],
      <<name(e[3]), 0 - e[3][2]>> >>

\* C29: amounts are signed: for a valid moment m, a unit u and n > 0,
\* calculate(Moment(m) + Amount(u, -n)) equals calculate(Moment(m) -
\* Amount(u, n)) and calculate(Moment(m) - Amount(u, -n)) equals
\* calculate(Moment(m) + Amount(u, n)); the negative count yields no error
\* where the opposite operation succeeds.
C29_NegativeCountIsTheOpposite ==
    NegativeCount =>
        \A e \in {calculate(Opposite(expr))} :
            IF IsOk(e) THEN result = e ELSE IsErr(result)

\* only next() has been called on the Iter
OnlyNext == \A i \in 1..Len(log) : IsNext(i)

====
